---- MODULE Spec2Model ----
(***************************************************************************)
(* Model of the CI GFIP parsing and reconciliation engine:                 *)
(*   src/parsers/ci_gfip_universal.py  (normalizers, layout detection,     *)
(*                                      the two layout parsers)            *)
(*   src/main.py                       (gerar_hash_conteudo,               *)
(*                                      comparar_competencias)             *)
(*                                                                         *)
(* Python values are represented as follows.                               *)
(*   str      a sequence of one-character strings ("" is <<>>)             *)
(*   None     every dict value is wrapped: None is <<>>, a value v is <<v>>*)
(*   float    a decimal <<m, e>> standing for m * 10^(-e), with trailing   *)
(*            zeros of the fraction stripped, so equal numbers are equal   *)
(*            pairs                                                        *)
(*   dict     a record                                                     *)
(*   raise    a call that may raise returns [ok |-> TRUE, val |-> value]  *)
(*            or [ok |-> FALSE, val |-> name of the exception]             *)
(***************************************************************************)
EXTENDS Integers, Sequences, FiniteSets, TLC

VARIABLES
    \* ---- one parse_ci_gfip call, followed by the caller's fingerprint ----
    texto,          \* the input text: the sequence of its raw lines
    pc,             \* position of the call
    layout,         \* result of detectar_layout_ci_gfip (None before it ran)
    cabecalho,      \* the header dict (None before the extraction)
    linhas,         \* records appended so far by the row loop
    idx,            \* index of the raw line the row loop is at (0 before it)
    in_table,       \* in_table / dentro_tabela flag of the row loop
    partes,         \* tokens of the row under assembly (None between rows)
    resultado,      \* the dict returned by parse_ci_gfip (None before return)
    hash_conteudo,  \* the caller's gerar_hash_conteudo of the result
    \* ---- one comparar_competencias call ----
    linhas_antigas, linhas_novas, diff_pc, complementos, retificacoes, iguais,
    \* ---- gerar_hash_conteudo of a record list and of a reordering of it ----
    cab_hash, linhas_hash, linhas_perm, hash_pc, hash_a, hash_b,
    \* ---- a second parse_ci_gfip call on the text of the first ----
    chamada,        \* which call of the two is running (0: a single call)
    anterior,       \* what the first call returned (None before the second)
    \* ---- one normalizar_documento_tomador call ----
    doc_valor, doc_pc, doc_saida,
    \* ---- processar_ci_gfip: the tables of the database and the calls ----
    ci_gfip_segurados,       \* rows in insertion order; the id is the index
    ci_gfip_segurado_nits,
    ci_gfip_relatorios,      \* rows in insertion order (criado_em)
    ci_gfip_linhas,
    ci_gfip_complementacoes,
    ci_gfip_retificacoes,
    req                      \* the locals of each call of the endpoint

vars == <<texto, pc, layout, cabecalho, linhas, idx, in_table, partes,
          resultado, hash_conteudo,
          linhas_antigas, linhas_novas, diff_pc, complementos, retificacoes,
          iguais,
          cab_hash, linhas_hash, linhas_perm, hash_pc, hash_a, hash_b,
          chamada, anterior, doc_valor, doc_pc, doc_saida,
          ci_gfip_segurados, ci_gfip_segurado_nits, ci_gfip_relatorios,
          ci_gfip_linhas, ci_gfip_complementacoes, ci_gfip_retificacoes, req>>

varsParse == <<texto, pc, layout, cabecalho, linhas, idx, in_table, partes,
               resultado, hash_conteudo>>
varsDiff == <<linhas_antigas, linhas_novas, diff_pc, complementos,
              retificacoes, iguais>>
varsHash == <<cab_hash, linhas_hash, linhas_perm, hash_pc, hash_a, hash_b>>
varsRep == <<chamada, anterior>>
varsDoc == <<doc_valor, doc_pc, doc_saida>>
varsTabelas == <<ci_gfip_segurados, ci_gfip_segurado_nits, ci_gfip_relatorios,
                 ci_gfip_linhas, ci_gfip_complementacoes,
                 ci_gfip_retificacoes>>
varsServ == <<varsTabelas, req>>

(***************************************************************************)
(* Python values                                                           *)
(***************************************************************************)
None == <<>>
Some(v) == <<v>>
IsNone(x) == x = <<>>
Val(x) == x[1]

\* the outcome of a call that may raise: the value, or the exception's name
Ok(v) == [ok |-> TRUE, val |-> v]
Raise(nome) == [ok |-> FALSE, val |-> nome]

(***************************************************************************)
(* str primitives                                                          *)
(***************************************************************************)
\* The characters the model's texts use, in code point order.
Alfabeto ==
    <<" ", "$", ",", "-", ".", "/",
      "0", "1", "2", "3", "4", "5", "6", "7", "8", "9", ":",
      "A", "B", "C", "D", "E", "F", "G", "H", "I", "J", "K", "L", "M",
      "N", "O", "P", "Q", "R", "S", "T", "U", "V", "W", "X", "Y", "Z",
      "a", "b", "c", "d", "e", "f", "g", "h", "i", "j", "k", "l", "m",
      "n", "o", "p", "q", "r", "s", "t", "u", "v", "w", "x", "y", "z",
      "Á", "Ã", "á", "ã">>

Ord(c) == CHOOSE i \in 1..Len(Alfabeto) : Alfabeto[i] = c

Minusculas ==
    <<"a", "b", "c", "d", "e", "f", "g", "h", "i", "j", "k", "l", "m",
      "n", "o", "p", "q", "r", "s", "t", "u", "v", "w", "x", "y", "z",
      "á", "ã">>
Maiusculas ==
    <<"A", "B", "C", "D", "E", "F", "G", "H", "I", "J", "K", "L", "M",
      "N", "O", "P", "Q", "R", "S", "T", "U", "V", "W", "X", "Y", "Z",
      "Á", "Ã">>

ParaMaiuscula ==
    [c \in {Minusculas[i] : i \in 1..Len(Minusculas)} |->
        Maiusculas[CHOOSE i \in 1..Len(Minusculas) : Minusculas[i] = c]]
ParaMinuscula ==
    [c \in {Maiusculas[i] : i \in 1..Len(Maiusculas)} |->
        Minusculas[CHOOSE i \in 1..Len(Maiusculas) : Maiusculas[i] = c]]

UpperChar(c) == IF c \in DOMAIN ParaMaiuscula THEN ParaMaiuscula[c] ELSE c
LowerChar(c) == IF c \in DOMAIN ParaMinuscula THEN ParaMinuscula[c] ELSE c

\* str.upper(), str.lower()
Upper(s) == [i \in 1..Len(s) |-> UpperChar(s[i])]
Lower(s) == [i \in 1..Len(s) |-> LowerChar(s[i])]

\* \s of the texts: the space and the line break
NL == "\n"
Brancos == {" ", NL}
EhEspaco(c) == c \in Brancos

\* \d
Digitos == <<"0", "1", "2", "3", "4", "5", "6", "7", "8", "9">>
ConjuntoDigitos == {Digitos[i] : i \in 1..Len(Digitos)}
ValorDosDigitos ==
    [c \in ConjuntoDigitos |-> (CHOOSE i \in 1..Len(Digitos) : Digitos[i] = c) - 1]
EhDigito(c) == c \in ConjuntoDigitos
ValorDigito(c) == ValorDosDigitos[c]

\* the least and the greatest element of a non-empty set of integers
Menor(S) == CHOOSE x \in S : \A y \in S : x <= y
Maior(S) == CHOOSE x \in S : \A y \in S : x >= y
SoDigitos(s) == \A i \in 1..Len(s) : EhDigito(s[i])

\* int(s) of a digit string
RECURSIVE ParaInteiro(_)
ParaInteiro(s) ==
    IF s = <<>> THEN 0
    ELSE 10 * ParaInteiro(SubSeq(s, 1, Len(s) - 1)) + ValorDigito(s[Len(s)])

\* str(n) of a natural number
RECURSIVE ParaTexto(_)
ParaTexto(n) ==
    IF n < 10 THEN <<Digitos[n + 1]>>
    ELSE ParaTexto(n \div 10) \o <<Digitos[(n % 10) + 1]>>

\* str.zfill(w)
RECURSIVE ZFill(_, _)
ZFill(s, w) == IF Len(s) >= w THEN s ELSE ZFill(<<"0">> \o s, w)

\* str.startswith(p)
StartsWith(s, p) == Len(s) >= Len(p) /\ SubSeq(s, 1, Len(p)) = p

\* sub in s
Contains(s, sub) ==
    \E i \in 1..(Len(s) - Len(sub) + 1) : SubSeq(s, i, i + Len(sub) - 1) = sub

\* str.strip()
RECURSIVE LStrip(_)
LStrip(s) ==
    IF s # <<>> /\ EhEspaco(s[1]) THEN LStrip(Tail(s)) ELSE s
RECURSIVE RStrip(_)
RStrip(s) ==
    IF s # <<>> /\ EhEspaco(s[Len(s)])
    THEN RStrip(SubSeq(s, 1, Len(s) - 1)) ELSE s
Strip(s) == RStrip(LStrip(s))

\* str.replace(old, novo)
RECURSIVE Replace(_, _, _)
Replace(s, old, novo) ==
    IF s = <<>> THEN <<>>
    ELSE IF StartsWith(s, old)
         THEN novo \o Replace(SubSeq(s, Len(old) + 1, Len(s)), old, novo)
         ELSE <<s[1]>> \o Replace(Tail(s), old, novo)

\* str.split(c) on a one-character separator (empty parts are kept)
RECURSIVE SplitChar(_, _)
SplitChar(s, c) ==
    IF \E i \in 1..Len(s) : s[i] = c
    THEN LET p == CHOOSE i \in 1..Len(s) :
                      s[i] = c /\ \A j \in 1..(i - 1) : s[j] # c
         IN <<SubSeq(s, 1, p - 1)>> \o SplitChar(SubSeq(s, p + 1, Len(s)), c)
    ELSE <<s>>

\* the parts of s between runs of at least n whitespace characters; s is
\* stripped, so no part is empty unless s is
SplitRuns(s, n) ==
    LET sep(i) == \E a \in (i - n + 1)..i :
                      /\ a >= 1
                      /\ a + n - 1 <= Len(s)
                      /\ \A q \in a..(a + n - 1) : EhEspaco(s[q])
        seps == {i \in 1..Len(s) : sep(i)}
        inicios == {i \in 1..Len(s) : i \notin seps /\ (i = 1 \/ (i - 1) \in seps)}
        fim(i) == LET prox == {q \in i..Len(s) : q \in seps}
                  IN IF prox = {} THEN Len(s) ELSE Menor(prox) - 1
        ordem(k) == CHOOSE i \in inicios :
                        Cardinality({j \in inicios : j < i}) = k - 1
    IN IF s = <<>> THEN << <<>> >>
       ELSE [k \in 1..Cardinality(inicios) |->
                SubSeq(s, ordem(k), fim(ordem(k)))]

\* str.split(): split at runs of whitespace, no empty parts
Split(s) == LET t == Strip(s) IN IF t = <<>> THEN <<>> ELSE SplitRuns(t, 1)

\* re.split(r"\s{2,}", s) of a stripped line ("" gives [""])
SplitColunas(s) == SplitRuns(s, 2)

\* a < b for str: lexicographic by code point
RECURSIVE StrMenor(_, _)
StrMenor(a, b) ==
    IF b = <<>> THEN FALSE
    ELSE IF a = <<>> THEN TRUE
    ELSE IF a[1] = b[1] THEN StrMenor(Tail(a), Tail(b))
    ELSE Ord(a[1]) < Ord(b[1])

(***************************************************************************)
(* FieldNormalizer: src/parsers/ci_gfip_universal.py lines 10-97           *)
(***************************************************************************)
\* so_numeros: re.sub(r"\D", "", valor)
so_numeros(valor) ==
    IF IsNone(valor) \/ Val(valor) = <<>> THEN <<>>
    ELSE SelectSeq(Val(valor), EhDigito)

\* %m of strptime: 1[0-2] | 0[1-9] | [1-9]
EhMes(s) ==
    /\ SoDigitos(s)
    /\ Len(s) \in 1..2
    /\ ParaInteiro(s) \in 1..12
    /\ s # <<"0">>

\* %Y of strptime: four digits; datetime() then refuses the year 0
EhAno(s) == SoDigitos(s) /\ Len(s) = 4 /\ ParaInteiro(s) >= 1

\* %d of strptime: 3[0-1] | [1-2]\d | 0[1-9] | [1-9] | " "[1-9]
EhDia(s) ==
    \/ SoDigitos(s) /\ Len(s) \in 1..2 /\ ParaInteiro(s) \in 1..31
                    /\ s # <<"0">>
    \/ Len(s) = 2 /\ s[1] = " " /\ EhDigito(s[2]) /\ s[2] # "0"

Bissexto(a) == (a % 4 = 0 /\ a % 100 # 0) \/ a % 400 = 0
DiasNoMes(a, m) ==
    IF m = 2 THEN (IF Bissexto(a) THEN 29 ELSE 28)
    ELSE IF m \in {4, 6, 9, 11} THEN 30 ELSE 31

\* datetime.strptime(s, "%m<sep>%Y"): <<ano, mes>> or None (ValueError)
StrptimeMesAno(s, sep) ==
    LET ps == SplitChar(s, sep)
    IN IF Len(ps) = 2 /\ EhMes(ps[1]) /\ EhAno(ps[2])
       THEN Some(<<ParaInteiro(ps[2]), ParaInteiro(ps[1])>>)
       ELSE None

\* datetime.strptime(s, "%d<sep>%m<sep>%Y"): <<ano, mes, dia>> or None
StrptimeDiaMesAno(s, sep) ==
    LET ps == SplitChar(s, sep)
    IN IF /\ Len(ps) = 3 /\ EhDia(ps[1]) /\ EhMes(ps[2]) /\ EhAno(ps[3])
          /\ ParaInteiro(LStrip(ps[1]))
                 <= DiasNoMes(ParaInteiro(ps[3]), ParaInteiro(ps[2]))
       THEN Some(<<ParaInteiro(ps[3]), ParaInteiro(ps[2]),
                   ParaInteiro(LStrip(ps[1]))>>)
       ELSE None

\* normalizar_competencia: [data, literal]
normalizar_competencia(comp_str) ==
    IF IsNone(comp_str) \/ Val(comp_str) = <<>>
    THEN [data |-> None, literal |-> <<>>]
    ELSE LET s == Strip(Val(comp_str))
             a == StrptimeMesAno(s, "/")
             b == StrptimeMesAno(s, "-")
             dt == IF ~IsNone(a) THEN a ELSE b
         IN IF IsNone(dt) THEN [data |-> None, literal |-> s]
            ELSE [data |-> Some(ParaTexto(Val(dt)[1]) \o <<"-">>
                                \o ZFill(ParaTexto(Val(dt)[2]), 2)
                                \o <<"-", "0", "1">>),
                  literal |-> s]

\* normalizar_data: [data, literal]
normalizar_data(ddmmaaaa) ==
    IF IsNone(ddmmaaaa) \/ Val(ddmmaaaa) = <<>>
    THEN [data |-> None, literal |-> <<>>]
    ELSE LET s == Strip(Val(ddmmaaaa))
             a == StrptimeDiaMesAno(s, "/")
             b == StrptimeDiaMesAno(s, "-")
             dt == IF ~IsNone(a) THEN a ELSE b
         IN IF IsNone(dt) THEN [data |-> None, literal |-> s]
            ELSE [data |-> Some(ParaTexto(Val(dt)[1]) \o <<"-">>
                                \o ZFill(ParaTexto(Val(dt)[2]), 2) \o <<"-">>
                                \o ZFill(ParaTexto(Val(dt)[3]), 2)),
                  literal |-> s]

\* the decimal m * 10^(-e) with the trailing zeros of its fraction stripped
RECURSIVE Decimal(_, _)
Decimal(m, e) ==
    IF e > 0 /\ m % 10 = 0 THEN Decimal(m \div 10, e - 1) ELSE <<m, e>>

\* float(Decimal(txt)) for the plain forms [+-]digits[.digits] of the texts
\* (surrounding whitespace allowed); anything else is InvalidOperation (None).
\* Exponents, underscores, Infinity and NaN do not occur in the model's texts.
ParaFloat(txt) ==
    LET t == Strip(txt)
        u == IF t # <<>> /\ t[1] \in {"+", "-"} THEN Tail(t) ELSE t
        neg == t # <<>> /\ t[1] = "-"
        ps == SplitChar(u, ".")
        ds == IF Len(ps) = 2 THEN ps[1] \o ps[2] ELSE u
        e == IF Len(ps) = 2 THEN Len(ps[2]) ELSE 0
    IN IF Len(ps) <= 2 /\ ds # <<>> /\ SoDigitos(ds)
       THEN Some(Decimal((IF neg THEN -1 ELSE 1) * ParaInteiro(ds), e))
       ELSE None

\* a currency normalizer that drops the literal of what it cannot convert
normalizar_moeda_sem_literal(valor) ==
    IF IsNone(valor) \/ Val(valor) = <<>>
    THEN [valor |-> None, literal |-> <<>>]
    ELSE LET bruto == Strip(Val(valor))
             txt == Replace(Replace(Replace(bruto, <<"R", "$">>, <<>>),
                                    <<".">>, <<>>), <<",">>, <<".">>)
         IN [valor |-> ParaFloat(txt),
             literal |-> IF IsNone(ParaFloat(txt)) THEN <<>> ELSE bruto]

\* normalizar_moeda: [valor, literal]
normalizar_moeda(valor) ==
    IF IsNone(valor) \/ Val(valor) = <<>>
    THEN [valor |-> None, literal |-> <<>>]
    ELSE LET bruto == Strip(Val(valor))
             txt == Replace(Replace(Replace(bruto, <<"R", "$">>, <<>>),
                                    <<".">>, <<>>), <<",">>, <<".">>)
         IN [valor |-> ParaFloat(txt), literal |-> bruto]

\* a document normalizer that keeps every digit of a 9 to 13 digit number
normalizar_documento_sem_truncar(valor) ==
    IF IsNone(valor) \/ Val(valor) = <<>>
    THEN [documento |-> <<>>, tipo |-> "DESCONHECIDO"]
    ELSE LET numeros == so_numeros(valor)
         IN IF Len(numeros) = 14
            THEN [documento |-> numeros, tipo |-> "CNPJ_COMPLETO"]
            ELSE IF Len(numeros) = 12
            THEN [documento |-> numeros, tipo |-> "CEI"]
            ELSE IF Len(numeros) = 11
            THEN [documento |-> numeros, tipo |-> "CPF"]
            ELSE IF Len(numeros) <= 13
            THEN [documento |-> ZFill(numeros, 8), tipo |-> "CNPJ_RAIZ"]
            ELSE [documento |-> numeros, tipo |-> "DESCONHECIDO"]

\* normalizar_documento_tomador: [documento, tipo]
normalizar_documento_tomador(valor) ==
    IF IsNone(valor) \/ Val(valor) = <<>>
    THEN [documento |-> <<>>, tipo |-> "DESCONHECIDO"]
    ELSE LET numeros == so_numeros(valor)
         IN IF Len(numeros) = 14
            THEN [documento |-> numeros, tipo |-> "CNPJ_COMPLETO"]
            ELSE IF Len(numeros) = 12
            THEN [documento |-> numeros, tipo |-> "CEI"]
            ELSE IF Len(numeros) = 11
            THEN [documento |-> numeros, tipo |-> "CPF"]
            ELSE IF Len(numeros) <= 8
            THEN [documento |-> ZFill(numeros, 8), tipo |-> "CNPJ_RAIZ"]
            ELSE IF 9 <= Len(numeros) /\ Len(numeros) <= 13
            THEN [documento |-> ZFill(SubSeq(numeros, 1, 8), 8),
                  tipo |-> "CNPJ_RAIZ"]
            ELSE [documento |-> numeros, tipo |-> "DESCONHECIDO"]

(***************************************************************************)
(* LayoutDetector: src/parsers/ci_gfip_universal.py lines 104-119          *)
(***************************************************************************)
KW_MODELO_2 ==
    <<"C", "O", "N", "S", "U", "L", "T", "A", " ", "V", "A", "L", "O", "R",
      "E", "S", " ", "C", "I", " ", "G", "F", "I", "P", "/", "E", "S", "O",
      "C", "I", "A", "L", "/", "I", "N", "S", "S">>
KW_COMPET == <<"C", "O", "M", "P", "E", "T">>
KW_FPAS == <<"F", "P", "A", "S">>
KW_CATEG == <<"C", "A", "T", "E", "G">>
KW_FONTE == <<"F", "O", "N", "T", "E">>
KW_NIT == <<"N", "I", "T">>
KW_VALOR_RETIDO ==
    <<"V", "A", "L", "O", "R", " ", "R", "E", "T", "I", "D", "O">>
PREFIXO_PAGINA == <<"P", "á", "g", "i", "n", "a", " ">>
TAG_GFIP == <<"G", "F", "I", "P">>
TAG_ESOCIAL == <<"E", "S", "O", "C", "I", "A", "L">>

\* kw in txt.upper(), txt being lines joined by line breaks; no keyword holds
\* a line break, so it is in the text exactly when it is in one of the lines
TextoContem(txt, kw) == \E i \in 1..Len(txt) : Contains(Upper(txt[i]), kw)

\* a detector with no "not identified" outcome: a text with no keyword is
\* taken for the older layout
detectar_layout_sem_desconhecido(txt) ==
    IF TextoContem(txt, KW_MODELO_2) THEN "modelo_2" ELSE "modelo_1"

\* a detector that tries the column keywords of the older layout first
detectar_layout_modelo_1_primeiro(txt) ==
    IF /\ TextoContem(txt, KW_COMPET)
       /\ TextoContem(txt, KW_FPAS)
       /\ TextoContem(txt, KW_CATEG)
    THEN "modelo_1"
    ELSE IF TextoContem(txt, KW_MODELO_2) THEN "modelo_2"
         ELSE "layout_nao_identificado"

detectar_layout_ci_gfip(txt) ==
    IF TextoContem(txt, KW_MODELO_2) THEN "modelo_2"
    ELSE IF /\ TextoContem(txt, KW_COMPET)
            /\ TextoContem(txt, KW_FPAS)
            /\ TextoContem(txt, KW_CATEG)
         THEN "modelo_1"
         ELSE "layout_nao_identificado"

(***************************************************************************)
(* Record assembly helpers shared by the two layouts                       *)
(***************************************************************************)
\* int(comp_date.split("-")[k]) if comp_date else None
ParteDaData(comp_date, k) ==
    IF IsNone(comp_date) \/ Val(comp_date) = <<>> THEN None
    ELSE Some(ParaInteiro(SplitChar(Val(comp_date), "-")[k]))

\* a month that is 0, not None, when the competency did not parse
competencia_mes_zero(comp_date) ==
    IF IsNone(comp_date) \/ Val(comp_date) = <<>> THEN Some(0)
    ELSE ParteDaData(comp_date, 2)

competencia_ano(comp_date) == ParteDaData(comp_date, 1)
competencia_mes(comp_date) == ParteDaData(comp_date, 2)

\* extemp_literal.lower().startswith("s") if extemp_literal else False
Extemporaneo(extemp_literal) ==
    IF extemp_literal = <<>> THEN FALSE
    ELSE StartsWith(Lower(extemp_literal), <<"s">>)

(***************************************************************************)
(* parse_modelo_1 row loop: src/parsers/ci_gfip_universal.py lines 177-233 *)
(***************************************************************************)
\* lines 180-193: what one raw line does to dentro_tabela, and the parts it
\* hands to the assembly (None when the line is skipped)
LinhaModelo1(raw, dentro) ==
    LET up == Upper(raw)
    IN IF Contains(up, KW_COMPET) /\ Contains(up, KW_FPAS)
             /\ Contains(up, KW_CATEG)
       THEN [in_table |-> TRUE, partes |-> None]
       ELSE IF ~dentro THEN [in_table |-> dentro, partes |-> None]
       ELSE LET ps == SplitColunas(Strip(raw))
            IN IF Len(ps) < 5 THEN [in_table |-> dentro, partes |-> None]
               ELSE [in_table |-> dentro, partes |-> Some(ps)]

\* lines 195-231: the record of one row (nit is cabecalho["nit"])
RegistroModelo1(ps, nit) ==
    LET remun == normalizar_moeda(Some(ps[4]))
        retido == normalizar_moeda(Some(ps[5]))
        comp == normalizar_competencia(Some(ps[1]))
    IN Some([fonte |-> Some(TAG_GFIP),
             numero_documento |-> None,
             nit |-> nit,
             competencia_literal |-> Some(comp.literal),
             competencia_date |-> comp.data,
             competencia_ano |-> competencia_ano(comp.data),
             competencia_mes |-> competencia_mes(comp.data),
             documento_tomador |-> None,
             documento_tomador_tipo |-> None,
             fpas |-> Some(ps[2]),
             categoria_codigo |-> Some(ps[3]),
             codigo_gfip |-> None,
             data_envio_literal |-> None,
             data_envio_date |-> None,
             tipo_remuneracao |-> None,
             remuneracao_literal |-> Some(remun.literal),
             remuneracao |-> remun.valor,
             valor_retido_literal |-> Some(retido.literal),
             valor_retido |-> retido.valor,
             extemporaneo_literal |-> None,
             extemporaneo |-> None])

(***************************************************************************)
(* _linhas_modelo_2: src/parsers/ci_gfip_universal.py lines 291-412        *)
(***************************************************************************)
\* a row loop that takes tagged lines wherever they stand in the text
LinhaModelo2SemTabela(raw, dentro) ==
    LET linha == Strip(raw)
        ps == Split(linha)
    IN IF ps = <<>> \/ Upper(ps[1]) \notin {TAG_GFIP, TAG_ESOCIAL}
       THEN [in_table |-> dentro, partes |-> None]
       ELSE [in_table |-> dentro, partes |-> Some(ps)]

\* lines 300-329: what one raw line does to in_table, and the tokens it hands
\* to the column mapping (None when the line is skipped)
LinhaModelo2(raw, dentro) ==
    LET linha == Strip(raw)
        up == Upper(linha)
    IN IF linha = <<>> THEN [in_table |-> dentro, partes |-> None]
       ELSE IF /\ Contains(up, KW_FONTE) /\ Contains(up, KW_NIT)
               /\ Contains(up, KW_COMPET) /\ Contains(up, KW_VALOR_RETIDO)
       THEN [in_table |-> TRUE, partes |-> None]
       ELSE IF ~dentro THEN [in_table |-> dentro, partes |-> None]
       ELSE IF StartsWith(linha, PREFIXO_PAGINA)
       THEN [in_table |-> dentro, partes |-> None]
       ELSE LET ps == Split(linha)
            IN IF ps = <<>> \/ Upper(ps[1]) \notin {TAG_GFIP, TAG_ESOCIAL}
               THEN [in_table |-> dentro, partes |-> None]
               ELSE [in_table |-> dentro, partes |-> Some(ps)]

\* lines 332-363: the columns of a row by source tag and token count
\* (None: "Linha estranha, ignora")
ColunasModelo2(ps) ==
    LET fonte == Upper(ps[1])
    IN IF fonte = TAG_GFIP /\ Len(ps) >= 13
       THEN Some([numero_documento |-> ps[2], nit_raw |-> ps[3],
                  competencia |-> ps[4], doc_tomador_raw |-> ps[5],
                  fpas |-> ps[6], categoria |-> Some(ps[7]),
                  codigo_gfip |-> Some(ps[8]), data_envio_lit |-> ps[9],
                  tipo_rem |-> ps[10], remun_txt |-> ps[11],
                  valor_retido_txt |-> ps[12],
                  extemp_txt |-> IF Len(ps) > 12 THEN ps[13] ELSE <<>>])
       ELSE IF fonte = TAG_ESOCIAL /\ Len(ps) >= 12
       THEN Some([numero_documento |-> ps[2], nit_raw |-> ps[3],
                  competencia |-> ps[4], doc_tomador_raw |-> ps[5],
                  fpas |-> ps[6], categoria |-> Some(ps[7]),
                  codigo_gfip |-> None, data_envio_lit |-> ps[8],
                  tipo_rem |-> ps[9], remun_txt |-> ps[10],
                  valor_retido_txt |-> ps[11],
                  extemp_txt |-> ps[12]])
       ELSE None

\* lines 365-407: the record of one mapped row
RegistroModelo2(ps) ==
    LET cols == ColunasModelo2(ps)
    IN IF IsNone(cols) THEN None
       ELSE LET c == Val(cols)
                comp == normalizar_competencia(Some(c.competencia))
                envio == normalizar_data(Some(c.data_envio_lit))
                remun == normalizar_moeda(Some(c.remun_txt))
                retido == normalizar_moeda(Some(c.valor_retido_txt))
                doc == normalizar_documento_tomador(Some(c.doc_tomador_raw))
                extemp_literal == Strip(c.extemp_txt)
            IN Some([fonte |-> Some(Upper(ps[1])),
                     numero_documento |-> Some(c.numero_documento),
                     nit |-> Some(so_numeros(Some(c.nit_raw))),
                     competencia_literal |-> Some(comp.literal),
                     competencia_date |-> comp.data,
                     competencia_ano |-> competencia_ano(comp.data),
                     competencia_mes |-> competencia_mes(comp.data),
                     documento_tomador |-> Some(doc.documento),
                     documento_tomador_tipo |-> Some(doc.tipo),
                     fpas |-> Some(c.fpas),
                     categoria_codigo |-> c.categoria,
                     codigo_gfip |-> c.codigo_gfip,
                     data_envio_literal |-> Some(envio.literal),
                     data_envio_date |-> envio.data,
                     tipo_remuneracao |-> Some(c.tipo_rem),
                     remuneracao_literal |-> Some(remun.literal),
                     remuneracao |-> remun.valor,
                     valor_retido_literal |-> Some(retido.literal),
                     valor_retido |-> retido.valor,
                     extemporaneo_literal |-> Some(extemp_literal),
                     extemporaneo |-> Some(Extemporaneo(extemp_literal))])

(***************************************************************************)
(* Regular expression searches of the header extraction                    *)
(***************************************************************************)
Chars == {Alfabeto[i] : i \in 1..Len(Alfabeto)}
\* "." without and with re.DOTALL
Qualquer == Chars
QualquerDotAll == Chars \cup {NL}
\* [\d\.\-]  and  [\d\. -]
ClasseNumero == ConjuntoDigitos \cup {".", "-"}
ClasseCpf == ClasseNumero \cup {" "}
\* [: ]  and  [:\s]
SepsRotulo == {":", " "}
SepsRotuloS == {":"} \cup Brancos

ROTULO_NOME == <<"N", "O", "M", "E">>
ROTULO_MAE == <<"M", "A", "E">>
ROTULO_NASCTO == <<"N", "A", "S", "C", "T", "O">>
ROTULO_NASCIMENTO == <<"N", "A", "S", "C", "I", "M", "E", "N", "T", "O">>
ROTULO_CPF == <<"C", "P", "F">>
ROTULO_DATA_NASCIMENTO ==
    <<"D", "A", "T", "A", " ", "D", "E", " ", "N", "A", "S", "C", "I", "M",
      "E", "N", "T", "O">>
ROTULO_NOME_DA_M == <<"N", "O", "M", "E", " ", "D", "A", " ", "M">>

\* number of characters of s from position p on that are in the class
Run(s, p, classe) ==
    LET fora == {q \in p..Len(s) : s[q] \notin classe}
    IN IF p > Len(s) THEN 0
       ELSE IF fora = {} THEN Len(s) - p + 1
       ELSE Menor(fora) - p

\* the text a pattern's literals are matched against: ci is re.IGNORECASE
\* (the labels below are written in upper case)
Visto(s, ci) == IF ci THEN Upper(s) ELSE s

\* the label matches u at i
RotuloEm(u, i, rotulo) ==
    /\ i >= 1
    /\ i + Len(rotulo) - 1 <= Len(u)
    /\ SubSeq(u, i, i + Len(rotulo) - 1) = rotulo

\* "[seps]+([classe]+)" matched right after position j: group(1) or None.
\* Both quantifiers are greedy; when the character after the separators is
\* not in the class the separators give characters back, and the group is
\* the last separator that is in the class.
GrupoApos(s, j, seps, classe) ==
    LET run == Run(s, j + 1, seps)
        k == j + run + 1
    IN IF run = 0 THEN None
       ELSE IF k <= Len(s) /\ s[k] \in classe
       THEN Some(SubSeq(s, k, k + Run(s, k, classe) - 1))
       ELSE IF \E t \in 1..(run - 1) : s[j + t + 1] \in classe
       THEN LET t == Maior({t \in 1..(run - 1) : s[j + t + 1] \in classe})
            IN Some(<<s[j + t + 1]>>)
       ELSE None

\* re.search(ROTULO "[seps]+([classe]+)", s).group(1), None without a match
BuscaRotulo(s, rotulo, seps, classe, ci) ==
    LET u == Visto(s, ci)
        casa == {i \in 1..Len(s) :
                    /\ RotuloEm(u, i, rotulo)
                    /\ ~IsNone(GrupoApos(s, i + Len(rotulo) - 1, seps, classe))}
    IN IF casa = {} THEN None
       ELSE GrupoApos(s, Menor(casa) + Len(rotulo) - 1, seps, classe)

\* \d{2}/\d{2}/\d{4} matches s at p
DataEm(s, p) ==
    /\ p >= 1
    /\ p + 9 <= Len(s)
    /\ \A d \in {0, 1, 3, 4, 6, 7, 8, 9} : EhDigito(s[p + d])
    /\ s[p + 2] = "/"
    /\ s[p + 5] = "/"

\* re.search(r"(\d{2}/\d{2}/\d{4})", s).group(1), None without a match
BuscaData(s) ==
    LET casa == {p \in 1..Len(s) : DataEm(s, p)}
    IN IF casa = {} THEN None
       ELSE Some(SubSeq(s, Menor(casa), Menor(casa) + 9))

\* "Data de Nascimento[: ]+(\d{2}/\d{2}/\d{4})" matched at p: the date or
\* None (u is s as IGNORECASE sees it)
TermDataNascimento(s, u, p) ==
    IF RotuloEm(u, p, ROTULO_DATA_NASCIMENTO)
    THEN LET j == p + Len(ROTULO_DATA_NASCIMENTO) - 1
             run == Run(s, j + 1, SepsRotulo)
         IN IF run >= 1 /\ DataEm(s, j + run + 1)
            THEN Some(SubSeq(s, j + run + 1, j + run + 10))
            ELSE None
    ELSE None

\* "CPF[: ]" matched at p
TermCpf(s, u, p) ==
    IF /\ RotuloEm(u, p, ROTULO_CPF)
       /\ p + Len(ROTULO_CPF) <= Len(s)
       /\ s[p + Len(ROTULO_CPF)] \in SepsRotulo
    THEN Some(<<>>)
    ELSE None

\* "Nome" and "Nome da M[ãa]e" at i under IGNORECASE: the position of the
\* label's last character when the label matches at i, else 0
RotuloNome(u, i) ==
    IF RotuloEm(u, i, ROTULO_NOME) THEN i + Len(ROTULO_NOME) - 1 ELSE 0
RotuloNomeDaMae(u, i) ==
    LET n == Len(ROTULO_NOME_DA_M)
    IN IF /\ RotuloEm(u, i, ROTULO_NOME_DA_M)
          /\ i + n + 1 <= Len(u)
          /\ u[i + n] \in {"Ã", "A"}
          /\ u[i + n + 1] = "E"
       THEN i + n + 1 ELSE 0

\* re.search(ROTULO "[: ]+(.+?)\s+" TERM, s, IGNORECASE | DOTALL): the
\* leftmost match, the separators greedy, the group as short as possible.
\* campo names the pattern: "nome" is Nome ... Data de Nascimento <date>,
\* "nome_mae" is Nome da M[ãa]e ... CPF.  The terminators start with a
\* letter, so \s+ takes the whole run of whitespace before them.
\* Result: None or [grupo, term], term being the terminator's group.
BuscaEntre(s, campo) ==
    LET u == Upper(s)
        Rotulo(i) == IF campo = "nome" THEN RotuloNome(u, i)
                     ELSE RotuloNomeDaMae(u, i)
        Term(p) == IF campo = "nome" THEN TermDataNascimento(s, u, p)
                   ELSE TermCpf(s, u, p)
        fim(h) == h + Run(s, h + 1, Brancos) + 1
        fechos == {h \in 1..(Len(s) - 1) :
                      s[h + 1] \in Brancos /\ ~IsNone(Term(fim(h)))}
        seps(i) == {t \in 1..Run(s, Rotulo(i) + 1, SepsRotulo) :
                       \E h \in fechos : h >= Rotulo(i) + t + 1}
        casa == {i \in 1..Len(s) : Rotulo(i) > 0 /\ seps(i) # {}}
    IN IF casa = {} THEN None
       ELSE LET i == Menor(casa)
                g == Rotulo(i) + Maior(seps(i)) + 1
                h == Menor({f \in fechos : f >= g})
            IN Some([grupo |-> SubSeq(s, g, h), term |-> Val(Term(fim(h)))])

\* the text as one str: the lines joined by line breaks
RECURSIVE TextoCompleto(_)
TextoCompleto(txt) ==
    IF txt = <<>> THEN <<>>
    ELSE IF Len(txt) = 1 THEN txt[1]
    ELSE txt[1] \o <<NL>> \o TextoCompleto(Tail(txt))

(***************************************************************************)
(* parse_modelo_1 header: src/parsers/ci_gfip_universal.py lines 135-172   *)
(***************************************************************************)
CabecalhoVazio1 ==
    [nit |-> Some(<<>>), nome |-> Some(<<>>), nome_mae |-> Some(<<>>),
     data_nascimento |-> Some(<<>>), cpf |-> Some(<<>>)]

\* lines 149-172: what one line does to the header
CabecalhoLinha1(cab, linha) ==
    LET up == Upper(linha)
        m_nit == BuscaRotulo(linha, KW_NIT, SepsRotuloS, ClasseNumero, TRUE)
        m_nome == BuscaRotulo(linha, ROTULO_NOME, SepsRotuloS, Qualquer, TRUE)
        m_mae == BuscaRotulo(linha, ROTULO_MAE, SepsRotuloS, Qualquer, TRUE)
        m_nasc == BuscaData(linha)
        m_cpf == BuscaRotulo(linha, ROTULO_CPF, SepsRotuloS, ClasseCpf, FALSE)
        c1 == IF Contains(up, KW_NIT) /\ ~IsNone(m_nit)
              THEN [cab EXCEPT !.nit = Some(so_numeros(m_nit))] ELSE cab
        c2 == IF /\ Contains(up, ROTULO_NOME) /\ ~Contains(up, ROTULO_MAE)
                 /\ ~IsNone(m_nome)
              THEN [c1 EXCEPT !.nome = Some(Strip(Val(m_nome)))] ELSE c1
        c3 == IF Contains(up, ROTULO_MAE) /\ ~IsNone(m_mae)
              THEN [c2 EXCEPT !.nome_mae = Some(Strip(Val(m_mae)))] ELSE c2
        c4 == IF /\ \/ Contains(up, ROTULO_NASCTO)
                    \/ Contains(up, ROTULO_NASCIMENTO)
                 /\ ~IsNone(m_nasc)
              THEN [c3 EXCEPT !.data_nascimento = m_nasc] ELSE c3
        c5 == IF Contains(up, ROTULO_CPF) /\ ~IsNone(m_cpf)
              THEN [c4 EXCEPT !.cpf = Some(Strip(Val(m_cpf)))] ELSE c4
    IN c5

\* lines 148-172: the loop over all lines
RECURSIVE CabecalhoModelo1(_, _)
CabecalhoModelo1(cab, txt) ==
    IF txt = <<>> THEN cab
    ELSE CabecalhoModelo1(CabecalhoLinha1(cab, txt[1]), Tail(txt))

(***************************************************************************)
(* _cabecalho_modelo_2: src/parsers/ci_gfip_universal.py lines 247-288     *)
(***************************************************************************)
cabecalho_modelo_2(txt) ==
    LET s == TextoCompleto(txt)
        m_nit == BuscaRotulo(s, KW_NIT, SepsRotulo, ClasseNumero, TRUE)
        m_nome == BuscaEntre(s, "nome")
        m_mae == BuscaEntre(s, "nome_mae")
        m_cpf == BuscaRotulo(s, ROTULO_CPF, SepsRotulo, ClasseNumero, TRUE)
    IN [nit |-> IF IsNone(m_nit) THEN None ELSE Some(so_numeros(m_nit)),
        nome |-> IF IsNone(m_nome) THEN None
                 ELSE Some(Strip(Val(m_nome).grupo)),
        nome_mae |-> IF IsNone(m_mae) THEN None
                     ELSE Some(Strip(Val(m_mae).grupo)),
        data_nascimento |->
            IF IsNone(m_nome) THEN None
            ELSE normalizar_data(Some(Strip(Val(m_nome).term))).data,
        cpf |-> IF IsNone(m_cpf) THEN None ELSE Some(Strip(Val(m_cpf)))]

(***************************************************************************)
(* gerar_hash_conteudo: src/main.py lines 57-95                            *)
(***************************************************************************)
\* (x or "")
OuVazio(x) == IF IsNone(x) THEN <<>> ELSE Val(x)

\* float(x or 0)
OuZero(x) == IF IsNone(x) \/ Val(x) = <<0, 0>> THEN <<0, 0>> ELSE Val(x)

\* lines 63-68
CabNorm(cab) ==
    [nome |-> Upper(Strip(OuVazio(cab.nome))),
     nit |-> Strip(OuVazio(cab.nit)),
     data_nascimento |-> cab.data_nascimento,
     nome_mae |-> Upper(Strip(OuVazio(cab.nome_mae)))]

\* lines 72-81
LinhaNorm(l) ==
    [ano |-> l.competencia_ano,
     mes |-> l.competencia_mes,
     documento_tomador |-> l.documento_tomador,
     categoria |-> l.categoria_codigo,
     remuneracao |-> OuZero(l.remuneracao),
     extemporaneo |-> l.extemporaneo]

\* line 86: the sort key
ChaveOrdenacao(x) == <<x.ano, x.mes, x.documento_tomador>>

\* a < b on two values of a key: "lt", "ge", or "erro" (TypeError: "<" is not
\* supported when one of them is None); k tells the int from the str entries
ElementoMenor(a, b, k) ==
    IF IsNone(a) \/ IsNone(b) THEN "erro"
    ELSE IF k = 3 THEN (IF StrMenor(Val(a), Val(b)) THEN "lt" ELSE "ge")
    ELSE IF Val(a) < Val(b) THEN "lt" ELSE "ge"

\* ka < kb on two key tuples: the first entries that differ decide
TuplaMenor(ka, kb) ==
    IF \A k \in 1..3 : ka[k] = kb[k] THEN "ge"
    ELSE LET k == CHOOSE k \in 1..3 :
                      ka[k] # kb[k] /\ \A h \in 1..(k - 1) : ka[h] = kb[h]
         IN ElementoMenor(ka[k], kb[k], k)

\* x put into the sorted list s behind every element that is not greater:
\* the list, or the TypeError of a comparison
RECURSIVE Inserir(_, _)
Inserir(s, x) ==
    IF s = <<>> THEN Ok(<<x>>)
    ELSE LET ultimo == s[Len(s)]
             c == TuplaMenor(ChaveOrdenacao(x), ChaveOrdenacao(ultimo))
         IN IF c = "erro" THEN Raise("TypeError")
            ELSE IF c = "ge" THEN Ok(Append(s, x))
            ELSE LET r == Inserir(SubSeq(s, 1, Len(s) - 1), x)
                 IN IF r.ok THEN Ok(Append(r.val, ultimo)) ELSE r

\* lines 84-87: sorted(linhas_norm, key=...).  sorted is stable, so the result
\* is the one of this insertion sort; and any comparison sort of a list that
\* holds keys it cannot compare ends in the TypeError.
RECURSIVE Sorted(_)
Sorted(s) ==
    IF s = <<>> THEN Ok(<<>>)
    ELSE LET r == Sorted(SubSeq(s, 1, Len(s) - 1))
         IN IF r.ok THEN Inserir(r.val, s[Len(s)]) ELSE r

\* lines 57-95.  The digest is the SHA-256 of the JSON text of the structure,
\* keys sorted: equal structures give equal digests and different structures
\* different ones, so the structure stands for the digest.
gerar_hash_conteudo(cab, ls) ==
    LET linhas_norm == Sorted([i \in 1..Len(ls) |-> LinhaNorm(ls[i])])
    IN IF linhas_norm.ok
       THEN Ok([cabecalho |-> CabNorm(cab), linhas |-> linhas_norm.val])
       ELSE linhas_norm

(***************************************************************************)
(* comparar_competencias: src/main.py lines 98-153                         *)
(***************************************************************************)
\* lines 110-115
chave_linha(l) ==
    <<l.competencia_ano, l.competencia_mes, l.documento_tomador>>

\* line 117: {chave_linha(l): l for l in linhas_antigas}
RECURSIVE mapa_antigas(_)
mapa_antigas(ls) ==
    IF ls = <<>> THEN [k \in {} |-> <<>>]
    ELSE LET m == mapa_antigas(SubSeq(ls, 1, Len(ls) - 1))
             l == ls[Len(ls)]
         IN [k \in (DOMAIN m) \cup {chave_linha(l)} |->
                IF k = chave_linha(l) THEN l ELSE m[k]]

\* dict.get(k)
DictGet(m, k) == IF k \in DOMAIN m THEN Some(m[k]) ELSE None

\* lines 137-147
Retificacao(l, antiga) ==
    [competencia_ano |-> l.competencia_ano,
     competencia_mes |-> l.competencia_mes,
     competencia_date |-> l.competencia_date,
     competencia_literal |-> l.competencia_literal,
     valor_antigo |-> OuZero(antiga.remuneracao),
     valor_novo |-> OuZero(l.remuneracao),
     valor_antigo_literal |-> antiga.remuneracao_literal,
     valor_novo_literal |-> l.remuneracao_literal]

\* a pass that compares the literals of the two amounts, not their values
CompararLinhaPorLiteral(acc, mapa, l) ==
    LET antiga == DictGet(mapa, chave_linha(l))
    IN IF IsNone(antiga)
       THEN [acc EXCEPT !.complementos = Append(@, l)]
       ELSE IF Val(antiga).remuneracao_literal # l.remuneracao_literal
       THEN [acc EXCEPT !.retificacoes = Append(@, Retificacao(l, Val(antiga)))]
       ELSE [acc EXCEPT !.iguais = Append(@, l)]

\* a pass that files the prior record, not the new one, as unchanged
CompararLinhaGuardaAntiga(acc, mapa, l) ==
    LET antiga == DictGet(mapa, chave_linha(l))
    IN IF IsNone(antiga)
       THEN [acc EXCEPT !.complementos = Append(@, l)]
       ELSE IF OuZero(Val(antiga).remuneracao) # OuZero(l.remuneracao)
       THEN [acc EXCEPT !.retificacoes = Append(@, Retificacao(l, Val(antiga)))]
       ELSE [acc EXCEPT !.iguais = Append(@, Val(antiga))]

\* lines 124-151: one pass of the loop over linhas_novas
CompararLinha(acc, mapa, l) ==
    LET antiga == DictGet(mapa, chave_linha(l))
    IN IF IsNone(antiga)
       THEN [acc EXCEPT !.complementos = Append(@, l)]
       ELSE IF OuZero(Val(antiga).remuneracao) # OuZero(l.remuneracao)
       THEN [acc EXCEPT !.retificacoes = Append(@, Retificacao(l, Val(antiga)))]
       ELSE [acc EXCEPT !.iguais = Append(@, l)]

\* lines 119-153: the loop
RECURSIVE CompararLoop(_, _, _)
CompararLoop(acc, mapa, ls) ==
    IF ls = <<>> THEN acc
    ELSE CompararLoop(CompararLinha(acc, mapa, ls[1]), mapa, Tail(ls))

comparar_competencias(antigas, novas) ==
    CompararLoop([complementos |-> <<>>, retificacoes |-> <<>>,
                  iguais |-> <<>>],
                 mapa_antigas(antigas), novas)

(***************************************************************************)
(* Inputs: the texts, record lists and headers the checks draw from        *)
(***************************************************************************)
MaxLinhas == 2
MaxAntigas == 2
MaxNovas == 2
MaxLinhasHash == 2
MaxDigitos == 16
MaxChamadas == 3

L_TITULO ==
    <<"C", "o", "n", "s", "u", "l", "t", "a", " ", "V", "a", "l", "o", "r",
      "e", "s", " ", "C", "I", " ", "G", "F", "I", "P", "/", "e", "S", "o",
      "c", "i", "a", "l", "/", "I", "N", "S", "S">>
L_IDENT ==
    <<"N", "i", "t", ":", " ", "1", ".", "2", "3", "4", "-", "5", " ", "N",
      "o", "m", "e", ":", " ", "A", "N", "A", " ", "D", "a", "t", "a", " ",
      "d", "e", " ", "N", "a", "s", "c", "i", "m", "e", "n", "t", "o", ":",
      " ", "0", "2", "/", "0", "1", "/", "1", "9", "9", "0">>
L_MAE ==
    <<"N", "o", "m", "e", " ", "d", "a", " ", "M", "ã", "e", ":", " ", "E",
      "V", "A", " ", "C", "P", "F", ":", " ", "1", "1", "1", ".", "2", "2",
      "2", "-", "3">>
L_TABELA2 ==
    <<"F", "o", "n", "t", "e", " ", "N", "I", "T", " ", "C", "o", "m", "p",
      "e", "t", " ", "V", "a", "l", "o", "r", " ", "R", "e", "t", "i", "d",
      "o", " ", "E", "x", "t", "e", "m", "p">>
L_GFIP13 ==
    <<"G", "F", "I", "P", " ", "1", " ", "1", "2", " ", "0", "7", "/", "2",
      "0", "2", "3", " ", "1", "2", "3", " ", "5", "1", "5", " ", "0", "1",
      " ", "1", "1", "5", " ", "0", "2", "/", "0", "8", "/", "2", "0", "2",
      "3", " ", "M", " ", "1", ".", "0", "0", "0", ",", "5", "0", " ", "0",
      ",", "0", "0", " ", "N", "ã", "o">>
L_GFIP13_BAD ==
    <<"g", "f", "i", "p", " ", "2", " ", "1", "2", " ", "1", "3", "/", "2",
      "0", "2", "3", " ", "1", "2", "3", " ", "5", "1", "5", " ", "0", "1",
      " ", "1", "1", "5", " ", "3", "1", "/", "0", "2", "/", "2", "0", "2",
      "3", " ", "M", " ", "x", " ", "-", " ", "S", "i", "m">>
L_GFIP14 ==
    <<"G", "F", "I", "P", " ", "3", " ", "1", "2", " ", "0", "8", "/", "2",
      "0", "2", "3", " ", "1", "2", "3", " ", "5", "1", "5", " ", "0", "1",
      " ", "1", "1", "5", " ", "0", "2", "/", "0", "9", "/", "2", "0", "2",
      "3", " ", "M", " ", "N", " ", "2", ",", "5", " ", "0", ",", "0", "0",
      " ", "N", "ã", "o">>
L_GFIP12 ==
    <<"G", "F", "I", "P", " ", "4", " ", "1", "2", " ", "0", "9", "/", "2",
      "0", "2", "3", " ", "1", "2", "3", " ", "5", "1", "5", " ", "0", "1",
      " ", "1", "1", "5", " ", "0", "2", "/", "1", "0", "/", "2", "0", "2",
      "3", " ", "M", " ", "3", ",", "0", "0", " ", "N", "ã", "o">>
L_ESOCIAL12 ==
    <<"e", "S", "o", "c", "i", "a", "l", " ", "5", " ", "1", "2", " ", "0",
      "7", "/", "2", "0", "2", "3", " ", "4", "5", "6", "7", "8", "9", "0",
      "1", "2", "3", "4", " ", "5", "1", "5", " ", "0", "1", " ", "0", "2",
      "/", "0", "8", "/", "2", "0", "2", "3", " ", "M", " ", "R", "$", "1",
      ".", "0", "0", "0", ",", "5", "0", " ", "7", ",", "0", "0", " ", "s",
      "i", "m">>
L_PAGINA ==
    <<"P", "á", "g", "i", "n", "a", " ", "1", " ", "d", "e", " ", "2">>
L_CAB1 ==
    <<"N", "I", "T", ":", " ", "1", ".", "2", "3", "4", "-", "5", " ", "N",
      "O", "M", "E", ":", " ", "A", "N", "A">>
L_TABELA1 ==
    <<"C", "O", "M", "P", "E", "T", " ", " ", "F", "P", "A", "S", " ", " ",
      "C", "A", "T", "E", "G", " ", " ", "R", "E", "M", "U", "N", " ", " ",
      "R", "E", "T", "I", "D", "O">>
L_M1_ROW ==
    <<"0", "7", "/", "2", "0", "2", "3", " ", " ", "5", "1", "5", " ", " ",
      "0", "1", " ", " ", "1", ".", "0", "0", "0", ",", "5", "0", " ", " ",
      "0", ",", "0", "0">>
L_M1_BAD ==
    <<"2", "0", "2", "3", " ", " ", "5", "1", "5", " ", " ", "0", "1", " ",
      " ", "R", "$", " ", "2", ",", "5", " ", " ", "-">>
L_OUTRO ==
    <<"E", "x", "t", "r", "a", "t", "o", " ", "q", "u", "a", "l", "q", "u",
      "e", "r">>
\* a continuation word, a row with the currency symbol apart from its numeral
\* and the same row with the two joined, a row whose document has 18 digits,
\* a birth date with no name label, a mother's name with no CPF label
L_CONT == <<"N", "ã", "o">>
L_GFIP_RS ==
    <<"G", "F", "I", "P", " ", "6", " ", "1", "2", " ", "1", "0", "/", "2",
      "0", "2", "3", " ", "1", "2", "3", " ", "5", "1", "5", " ", "0", "1",
      " ", "1", "1", "5", " ", "0", "2", "/", "1", "1", "/", "2", "0", "2",
      "3", " ", "M", " ", "R", "$", " ", "1", ".", "0", "0", "0", ",", "5",
      "0", " ", "0", ",", "0", "0", " ", "N", "ã", "o">>
L_GFIP13_UNICO ==
    <<"G", "F", "I", "P", " ", "6", " ", "1", "2", " ", "1", "0", "/", "2",
      "0", "2", "3", " ", "1", "2", "3", " ", "5", "1", "5", " ", "0", "1",
      " ", "1", "1", "5", " ", "0", "2", "/", "1", "1", "/", "2", "0", "2",
      "3", " ", "M", " ", "R", "$", "1", ".", "0", "0", "0", ",", "5", "0",
      " ", "0", ",", "0", "0", " ", "N", "ã", "o">>
L_GFIP13_DOC ==
    <<"G", "F", "I", "P", " ", "7", " ", "1", "2", " ", "1", "1", "/", "2",
      "0", "2", "3", " ", "1", "1", ".", "2", "2", "2", ".", "3", "3", "3",
      "/", "0", "0", "0", "1", "-", "4", "4", "5", "5", "6", "6", " ", "5",
      "1", "5", " ", "0", "1", " ", "1", "1", "5", " ", "0", "2", "/", "1",
      "2", "/", "2", "0", "2", "3", " ", "M", " ", "4", ",", "0", "0", " ",
      "0", ",", "0", "0", " ", "N", "ã", "o">>
L_NASC ==
    <<"D", "a", "t", "a", " ", "d", "e", " ", "N", "a", "s", "c", "i", "m",
      "e", "n", "t", "o", ":", " ", "0", "2", "/", "0", "1", "/", "1", "9",
      "9", "0">>
L_SO_MAE ==
    <<"N", "o", "m", "e", " ", "d", "a", " ", "M", "ã", "e", ":", " ", "E",
      "V", "A">>
\* a name and birth date with no Nit label, and a row of the competency and
\* document of L_GFIP13 with another remuneration
L_IDENT_SEM_NIT ==
    <<"N", "o", "m", "e", ":", " ", "A", "N", "A", " ", "D", "a", "t", "a",
      " ", "d", "e", " ", "N", "a", "s", "c", "i", "m", "e", "n", "t", "o",
      ":", " ", "0", "2", "/", "0", "1", "/", "1", "9", "9", "0">>
L_GFIP13_RET ==
    <<"G", "F", "I", "P", " ", "8", " ", "1", "2", " ", "0", "7", "/", "2",
      "0", "2", "3", " ", "1", "2", "3", " ", "5", "1", "5", " ", "0", "1",
      " ", "1", "1", "5", " ", "0", "5", "/", "0", "8", "/", "2", "0", "2",
      "3", " ", "M", " ", "2", ".", "0", "0", "0", ",", "0", "0", " ", "0",
      ",", "0", "0", " ", "N", "ã", "o">>
\* a NIT with no name after it, and the NIT of L_IDENT under another name
L_SO_NIT == <<"N", "i", "t", ":", " ", "1", ".", "2", "3", "4", "-", "5">>
L_IDENT_BIA ==
    <<"N", "i", "t", ":", " ", "1", ".", "2", "3", "4", "-", "5", " ", "N",
      "o", "m", "e", ":", " ", "B", "I", "A", " ", "D", "a", "t", "a", " ",
      "d", "e", " ", "N", "a", "s", "c", "i", "m", "e", "n", "t", "o", ":",
      " ", "0", "2", "/", "0", "1", "/", "1", "9", "9", "0">>
T_COMP_A == <<"0", "7", "/", "2", "0", "2", "3">>
T_COMP_RUIM == <<"1", "3", "/", "2", "0", "2", "3">>
T_REM_A == <<"1", ".", "0", "0", "0", ",", "5", "0">>
T_REM_ZERO == <<"0", ",", "0", "0">>
T_REM_RUIM == <<"x">>
T_DOC == <<"1", "2", "3">>
T_CATEG == <<"0", "1">>
T_NOME == <<"A", "n", "a">>

\* the sequences of at most n elements of S
SeqAte(S, n) == UNION {[1..k -> S] : k \in 0..n}

\* the lines a text opens with: nothing, a layout-B document head with and
\* without the table header, a layout-A head, a text with no keyword
Prefixos ==
    {<<>>,
     <<L_TITULO, L_IDENT, L_MAE, L_TABELA2>>,
     <<L_TITULO>>,
     <<L_CAB1, L_TABELA1>>,
     <<L_OUTRO>>}

\* the lines that follow
LinhasCorpo ==
    {L_GFIP13, L_GFIP13_BAD, L_GFIP14, L_GFIP12, L_ESOCIAL12, L_PAGINA,
     L_M1_ROW, L_M1_BAD, L_GFIP13_DOC}

\* layout-B heads, whole and with labels missing, and the lines that follow
\* them: wrapped rows, split currency, table headers in the body
PrefixosExtra ==
    {<<L_TITULO, L_IDENT, L_MAE, L_TABELA2>>,
     <<L_TITULO>>,
     <<L_TITULO, L_NASC, L_TABELA2>>,
     <<L_TITULO, L_SO_MAE, L_TABELA2>>}

LinhasExtra ==
    {L_GFIP13, L_GFIP12, L_CONT, L_GFIP_RS, L_GFIP13_UNICO, L_TABELA1,
     L_TABELA2}

Textos ==
    {p \o c : p \in Prefixos, c \in SeqAte(LinhasCorpo, MaxLinhas)}
    \cup {p \o c : p \in PrefixosExtra, c \in SeqAte(LinhasExtra, MaxLinhas)}

\* a stored or parsed line, reduced to the fields the reconciliation reads
\* and built by the normalizers from a competency and a remuneration literal
LinhaDe(comp, rem) ==
    LET c == normalizar_competencia(Some(comp))
        m == normalizar_moeda(Some(rem))
        d == normalizar_documento_tomador(Some(T_DOC))
    IN [competencia_literal |-> Some(c.literal),
        competencia_date |-> c.data,
        competencia_ano |-> competencia_ano(c.data),
        competencia_mes |-> competencia_mes(c.data),
        documento_tomador |-> Some(d.documento),
        categoria_codigo |-> Some(T_CATEG),
        remuneracao_literal |-> Some(m.literal),
        remuneracao |-> m.valor,
        extemporaneo |-> Some(FALSE)]

LinhasDiff ==
    {LinhaDe(c, r) : c \in {T_COMP_A, T_COMP_RUIM},
                     r \in {T_REM_A, T_REM_ZERO, T_REM_RUIM}}

LinhasHash ==
    {LinhaDe(c, r) : c \in {T_COMP_A, T_COMP_RUIM},
                     r \in {T_REM_A, T_REM_ZERO}}

Cabecalhos ==
    {[nit |-> None, nome |-> Some(T_NOME), nome_mae |-> None,
      data_nascimento |-> None, cpf |-> None],
     [nit |-> Some(T_DOC), nome |-> Some(<<" ">> \o T_NOME),
      nome_mae |-> Some(T_NOME), data_nascimento |-> None, cpf |-> None]}

\* the document literals: None, and numbers of 0 to MaxDigitos digits written
\* bare, after a letter, with a point after each digit, before "/-"
DigitosDe(n) == [i \in 1..n |-> Digitos[((i - 1) % 10) + 1]]
Pontuado(s) == [i \in 1..(2 * Len(s)) |-> IF i % 2 = 1 THEN s[(i + 1) \div 2]
                                          ELSE "."]
Decorados(s) == {s, <<"x">> \o s, Pontuado(s), s \o <<"/", "-">>}
DocLiterais ==
    {None} \cup {Some(d) : d \in UNION {Decorados(DigitosDe(n)) :
                                          n \in 0..MaxDigitos}}

\* the documents submitted to the endpoint, as the text extracted from them:
\* a person with a NIT, the same NIT under another name with a changed and a
\* new competency, a person with no NIT, a NIT with no name, rows whose
\* fingerprint cannot be computed, a header with no rows under it, a text of
\* no known layout, an empty file
TextosServ ==
    {<<L_TITULO, L_IDENT, L_MAE, L_TABELA2, L_GFIP13>>,
     <<L_TITULO, L_IDENT_BIA, L_MAE, L_TABELA2, L_GFIP13_RET,
       L_GFIP13_UNICO>>,
     <<L_TITULO, L_IDENT_SEM_NIT, L_TABELA2, L_GFIP13>>,
     <<L_TITULO, L_SO_NIT, L_TABELA2, L_GFIP13>>,
     <<L_TITULO, L_IDENT, L_MAE, L_TABELA2, L_GFIP13, L_GFIP13_BAD>>,
     <<L_TITULO, L_IDENT, L_MAE, L_TABELA2>>,
     <<L_OUTRO>>,
     <<>>}

\* the reorderings of a list
Reordenacoes(s) ==
    {[i \in 1..Len(s) |-> s[f[i]]] :
        f \in {g \in [1..Len(s) -> 1..Len(s)] :
                  \A i, j \in 1..Len(s) : g[i] = g[j] => i = j}}

\* a dispatch with no error branch: what is not the older layout goes to the
\* parser of the newer one
DespachoSemErro(lay) == IF lay = "modelo_1" THEN "modelo_1" ELSE "modelo_2"

\* lines 446-452: where the detected layout sends the call
Despacho(lay) ==
    IF lay = "modelo_1" THEN "modelo_1"
    ELSE IF lay = "modelo_2" THEN "modelo_2"
    ELSE "erro"

(***************************************************************************)
(* The pure functions of a parse, tabulated over the texts.  A table is a  *)
(* constant, so it is evaluated once; a step of the call reads from it the *)
(* value the function has on the step's arguments.                         *)
(***************************************************************************)
\* f as a table of its values (f @@ <<>> is f, with every value computed)
Tabela(f) == f @@ <<>>

PARSERS == {"modelo_1", "modelo_2"}

\* line 444: detectar_layout_ci_gfip(texto)
layout_de == Tabela([t \in Textos |-> detectar_layout_ci_gfip(t)])

\* lines 135-172 and 421: the header the parser the text is sent to extracts
cabecalho_de ==
    Tabela([t \in Textos |->
               IF Despacho(layout_de[t]) = "modelo_1"
               THEN CabecalhoModelo1(CabecalhoVazio1, t)
               ELSE cabecalho_modelo_2(t)])

LinhasDosTextos == UNION {{t[i] : i \in 1..Len(t)} : t \in Textos}

\* lines 180-193 and 300-329: what a raw line does in the row loop of a parser
linha_de ==
    Tabela([p \in PARSERS, raw \in LinhasDosTextos, dentro \in BOOLEAN |->
               IF p = "modelo_1" THEN LinhaModelo1(raw, dentro)
               ELSE LinhaModelo2(raw, dentro)])

\* the rows the loop of a parser hands to its assembly, with the nit of the
\* headers
RowsDosTextos ==
    {<<x[1], Val(linha_de[x].partes), nit>> :
        x \in {y \in PARSERS \X LinhasDosTextos \X BOOLEAN :
                  ~IsNone(linha_de[y].partes)},
        nit \in {cabecalho_de[t].nit : t \in Textos}}

\* lines 195-231 and 331-407: the record a parser assembles from a row
registro_de ==
    Tabela([x \in RowsDosTextos |->
               IF x[1] = "modelo_1" THEN RegistroModelo1(x[2], x[3])
               ELSE RegistroModelo2(x[2])])

(***************************************************************************)
(* parse_ci_gfip: src/parsers/ci_gfip_universal.py lines 436-452, with the *)
(* steps of the parser it dispatches to                                    *)
(***************************************************************************)
ParseParado ==
    /\ texto = <<>> /\ pc = "idle" /\ layout = None /\ cabecalho = None
    /\ linhas = <<>> /\ idx = 0 /\ in_table = FALSE /\ partes = None
    /\ resultado = None /\ hash_conteudo = None
DiffParado ==
    /\ linhas_antigas = <<>> /\ linhas_novas = <<>> /\ diff_pc = "idle"
    /\ complementos = <<>> /\ retificacoes = <<>> /\ iguais = <<>>
HashParado ==
    /\ cab_hash = None /\ linhas_hash = <<>> /\ linhas_perm = <<>>
    /\ hash_pc = "idle" /\ hash_a = None /\ hash_b = None
RepParado == chamada = 0 /\ anterior = None
DocParado == doc_valor = None /\ doc_pc = "idle" /\ doc_saida = None
TabelasVazias ==
    /\ ci_gfip_segurados = <<>> /\ ci_gfip_segurado_nits = <<>>
    /\ ci_gfip_relatorios = <<>> /\ ci_gfip_linhas = <<>>
    /\ ci_gfip_complementacoes = <<>> /\ ci_gfip_retificacoes = <<>>
ServParado == TabelasVazias /\ req = <<>>

InitParse ==
    /\ texto \in Textos
    /\ pc = "start"
    /\ layout = None
    /\ cabecalho = None
    /\ linhas = <<>>
    /\ idx = 0
    /\ in_table = FALSE
    /\ partes = None
    /\ resultado = None
    /\ hash_conteudo = None

\* line 452
ResultadoErro == [erro |-> "layout_nao_identificado"]

\* lines 235-240 and 424-429
ResultadoParse(cab, ls, lay) ==
    [cabecalho |-> cab, linhas |-> ls, total_linhas |-> Len(ls),
     layout |-> lay]

\* line 444, and the return of line 452 when no parser takes the text
Detectar ==
    /\ pc = "start"
    /\ layout' = Some(layout_de[texto])
    /\ IF Despacho(Val(layout')) = "erro"
       THEN /\ resultado' = Some(ResultadoErro)
            /\ pc' = "failed"
       ELSE /\ resultado' = resultado
            /\ pc' = "layout_detected"
    /\ UNCHANGED <<texto, cabecalho, linhas, idx, in_table, partes,
                   hash_conteudo>>
    /\ UNCHANGED <<varsDiff, varsHash, varsRep, varsDoc, varsServ>>

\* lines 135-172 (layout A) and 421 (layout B): the header, before the rows
ExtrairCabecalho ==
    /\ pc = "layout_detected"
    /\ cabecalho' = Some(cabecalho_de[texto])
    /\ idx' = 1
    /\ pc' = "rows"
    /\ UNCHANGED <<texto, layout, linhas, in_table, partes, resultado,
                   hash_conteudo>>
    /\ UNCHANGED <<varsDiff, varsHash, varsRep, varsDoc, varsServ>>

\* lines 180-193 (layout A) and 300-329 (layout B): one raw line is skipped
\* or becomes the tokens of a row
ReconstruirLinha ==
    /\ pc = "rows"
    /\ idx <= Len(texto)
    /\ LET r == linha_de[Despacho(Val(layout)), texto[idx], in_table]
       IN /\ in_table' = r.in_table
          /\ partes' = r.partes
          /\ IF IsNone(r.partes)
             THEN idx' = idx + 1 /\ pc' = "rows"
             ELSE idx' = idx /\ pc' = "row_reconstructed"
    /\ UNCHANGED <<texto, layout, cabecalho, linhas, resultado,
                   hash_conteudo>>
    /\ UNCHANGED <<varsDiff, varsHash, varsRep, varsDoc, varsServ>>

\* lines 207 and 379: linhas.append of the record, when the row gave one
AnexarRegistro(ls, r) == IF IsNone(r) THEN ls ELSE Append(ls, Val(r))

\* lines 195-233 (layout A) and 331-410 (layout B): the row becomes a record,
\* or is dropped
MontarRegistro ==
    /\ pc = "row_reconstructed"
    /\ linhas' = AnexarRegistro(linhas,
                                registro_de[<<Despacho(Val(layout)),
                                              Val(partes),
                                              Val(cabecalho).nit>>])
    /\ partes' = None
    /\ idx' = idx + 1
    /\ pc' = "rows"
    /\ UNCHANGED <<texto, layout, cabecalho, in_table, resultado,
                   hash_conteudo>>
    /\ UNCHANGED <<varsDiff, varsHash, varsRep, varsDoc, varsServ>>

\* lines 235-240 and 424-429: the result of a parsed text
Retornar ==
    /\ pc = "rows"
    /\ idx > Len(texto)
    /\ resultado' = Some(ResultadoParse(Val(cabecalho), linhas, Val(layout)))
    /\ pc' = "done"
    /\ UNCHANGED <<texto, layout, cabecalho, linhas, idx, in_table, partes,
                   hash_conteudo>>
    /\ UNCHANGED <<varsDiff, varsHash, varsRep, varsDoc, varsServ>>

\* src/main.py lines 244-260: the caller fingerprints the parsed result
GerarHash ==
    /\ pc = "done"
    /\ hash_conteudo = None
    /\ hash_conteudo' = Some(gerar_hash_conteudo(Val(resultado).cabecalho,
                                                 Val(resultado).linhas))
    /\ UNCHANGED <<texto, pc, layout, cabecalho, linhas, idx, in_table,
                   partes, resultado>>
    /\ UNCHANGED <<varsDiff, varsHash, varsRep, varsDoc, varsServ>>

Init ==
    InitParse /\ DiffParado /\ HashParado /\ RepParado /\ DocParado /\ ServParado

Next ==
    \/ Detectar
    \/ ExtrairCabecalho
    \/ ReconstruirLinha
    \/ MontarRegistro
    \/ Retornar
    \/ GerarHash

Spec == Init /\ [][Next]_vars

\* a call runs to its return: it has no blocking step
SpecJusto == Spec /\ WF_vars(Next)

(***************************************************************************)
(* parse_ci_gfip called a second time on the text of the first call        *)
(***************************************************************************)
\* a row loop that goes on from the records and the flag the previous call
\* ended with
LocaisHerdados(ls, dentro) == [linhas |-> ls, in_table |-> dentro]

\* lines 176-177 and 297-298: a call makes the list of records and the flag
\* of its row loop anew, whatever the previous call ended with
LocaisDoLaco(ls, dentro) == [linhas |-> <<>>, in_table |-> FALSE]

InitDuas ==
    /\ InitParse
    /\ chamada = 1
    /\ anterior = None
    /\ DiffParado /\ HashParado /\ DocParado /\ ServParado

\* the first call has returned and the second one is made with the same text
Repetir ==
    /\ chamada = 1
    /\ pc \in {"done", "failed"}
    /\ chamada' = 2
    /\ anterior' = resultado
    /\ pc' = "start"
    /\ layout' = None
    /\ cabecalho' = None
    /\ linhas' = LocaisDoLaco(linhas, in_table).linhas
    /\ in_table' = LocaisDoLaco(linhas, in_table).in_table
    /\ idx' = 0
    /\ partes' = None
    /\ resultado' = None
    /\ hash_conteudo' = None
    /\ UNCHANGED texto
    /\ UNCHANGED <<varsDiff, varsHash, varsDoc, varsServ>>

NextDuas == Next \/ Repetir

SpecDuas == InitDuas /\ [][NextDuas]_vars

(***************************************************************************)
(* One comparar_competencias call on drawn record lists                    *)
(***************************************************************************)
InitDiff ==
    /\ linhas_antigas \in SeqAte(LinhasDiff, MaxAntigas)
    /\ linhas_novas \in SeqAte(LinhasDiff, MaxNovas)
    /\ diff_pc = "start"
    /\ complementos = <<>>
    /\ retificacoes = <<>>
    /\ iguais = <<>>
    /\ ParseParado /\ HashParado /\ RepParado /\ DocParado /\ ServParado

Comparar ==
    /\ diff_pc = "start"
    /\ LET r == comparar_competencias(linhas_antigas, linhas_novas)
       IN /\ complementos' = r.complementos
          /\ retificacoes' = r.retificacoes
          /\ iguais' = r.iguais
    /\ diff_pc' = "done"
    /\ UNCHANGED <<linhas_antigas, linhas_novas>>
    /\ UNCHANGED <<varsParse, varsHash, varsRep, varsDoc, varsServ>>

NextDiff == Comparar

SpecDiff == InitDiff /\ [][NextDiff]_vars

(***************************************************************************)
(* gerar_hash_conteudo on a drawn record list and on a reordering of it    *)
(***************************************************************************)
InitHash ==
    /\ cab_hash \in {Some(c) : c \in Cabecalhos}
    /\ linhas_hash \in SeqAte(LinhasHash, MaxLinhasHash)
    /\ linhas_perm \in Reordenacoes(linhas_hash)
    /\ hash_pc = "start"
    /\ hash_a = None
    /\ hash_b = None
    /\ ParseParado /\ DiffParado /\ RepParado /\ DocParado /\ ServParado

Fingerprints ==
    /\ hash_pc = "start"
    /\ hash_a' = Some(gerar_hash_conteudo(Val(cab_hash), linhas_hash))
    /\ hash_b' = Some(gerar_hash_conteudo(Val(cab_hash), linhas_perm))
    /\ hash_pc' = "done"
    /\ UNCHANGED <<cab_hash, linhas_hash, linhas_perm>>
    /\ UNCHANGED <<varsParse, varsDiff, varsRep, varsDoc, varsServ>>

NextHash == Fingerprints

SpecHash == InitHash /\ [][NextHash]_vars

(***************************************************************************)
(* One normalizar_documento_tomador call on a drawn literal                *)
(***************************************************************************)
InitDoc ==
    /\ doc_valor \in DocLiterais
    /\ doc_pc = "start"
    /\ doc_saida = None
    /\ ParseParado /\ DiffParado /\ HashParado /\ RepParado /\ ServParado

NormalizarDocumento ==
    /\ doc_pc = "start"
    /\ doc_saida' = Some(normalizar_documento_tomador(doc_valor))
    /\ doc_pc' = "done"
    /\ UNCHANGED doc_valor
    /\ UNCHANGED <<varsParse, varsDiff, varsHash, varsRep, varsServ>>

NextDoc == NormalizarDocumento

SpecDoc == InitDoc /\ [][NextDoc]_vars

(***************************************************************************)
(* parse_ci_gfip as a function of the text, as the endpoint calls it       *)
(***************************************************************************)
\* lines 179-189 and 300-329: one line through the row loop of parser p
LinhaDoParser(p, raw, dentro) ==
    IF p = "modelo_1" THEN LinhaModelo1(raw, dentro)
    ELSE LinhaModelo2(raw, dentro)

\* lines 191-233 and 331-407: the record of a row's parts, if any
RegistroDoParser(p, ps, nit) ==
    IF IsNone(ps) THEN None
    ELSE IF p = "modelo_1" THEN RegistroModelo1(Val(ps), nit)
    ELSE RegistroModelo2(Val(ps))

\* one pass of the loop: the flag and the records after line result r
PassoDoLaco(p, nit, st, r) ==
    [in_table |-> r.in_table,
     linhas |-> AnexarRegistro(st.linhas, RegistroDoParser(p, r.partes, nit))]

\* lines 179-233 and 300-410: the row loop of parser p from line i on, st
\* being its flag and the records appended so far
RECURSIVE linhas_do_texto(_, _, _, _, _)
linhas_do_texto(txt, p, nit, i, st) ==
    IF i > Len(txt) THEN st.linhas
    ELSE linhas_do_texto(txt, p, nit, i + 1,
                         PassoDoLaco(p, nit, st,
                                     LinhaDoParser(p, txt[i], st.in_table)))

\* lines 134-174 and 247-288: the header of parser p
CabecalhoDoParser(p, txt) ==
    IF p = "modelo_1" THEN CabecalhoModelo1(CabecalhoVazio1, txt)
    ELSE cabecalho_modelo_2(txt)

\* lines 235-240 and 421-433: the result of parser p
ParseDoLayout(txt, lay, cab) ==
    ResultadoParse(cab,
                   linhas_do_texto(txt, Despacho(lay), cab.nit, 1,
                                   [in_table |-> FALSE, linhas |-> <<>>]),
                   lay)

\* lines 440-452: the dispatch on the layout
ParseComLayout(txt, lay) ==
    IF Despacho(lay) = "erro" THEN ResultadoErro
    ELSE ParseDoLayout(txt, lay, CabecalhoDoParser(Despacho(lay), txt))

\* lines 436-452
parse_ci_gfip(txt) == ParseComLayout(txt, detectar_layout_ci_gfip(txt))

(***************************************************************************)
(* processar_ci_gfip: src/main.py lines 210-411, and                       *)
(* get_or_create_segurado: src/main.py lines 160-203.  Every .execute() on *)
(* the database is one step; nothing in the code holds the database        *)
(* between two steps of a call, so the steps of calls served by different  *)
(* workers interleave freely.                                              *)
(***************************************************************************)
Chamadas == 1..MaxChamadas

\* src/main.py line 240, tabulated over the submitted texts
resultado_de == Tabela([t \in TextosServ |-> parse_ci_gfip(t)])

\* src/main.py line 241: resultado.get("erro")
TemErro(r) == "erro" \in DOMAIN r

\* src/main.py lines 164-165
NitDoCabecalho(cab) == so_numeros(cab.nit)
NomeDoCabecalho(cab) == Strip(OuVazio(cab.nome))

\* the locals of a call that has not started
ReqNova(t) ==
    [pc |-> "nova", texto |-> t, layout |-> None, cab |-> None,
     linhas |-> <<>>, segurado_id |-> None, hash_conteudo |-> None,
     relatorio_ant_id |-> None,
     complementos |-> <<>>, retificacoes |-> <<>>, iguais |-> <<>>,
     c_pend |-> <<>>, r_pend |-> <<>>,
     relatorio_id |-> None, resposta |-> None]

\* the call ends with a response
Responde(r, status) == [r EXCEPT !.pc = "fim", !.resposta = Some(status)]

\* a lookup that finds no person for any NIT
SeguradosDeNenhumNit(nit) == <<>>

\* src/main.py lines 172-179: the segurado_id rows of the NIT
SeguradosDoNit(nit) ==
    SelectSeq(ci_gfip_segurado_nits, LAMBDA x : x.nit = nit)

\* src/main.py lines 263-269: the reports of the person with the fingerprint
RelatoriosIguais(sid, h) ==
    {k \in 1..Len(ci_gfip_relatorios) :
        /\ ci_gfip_relatorios[k].segurado_id = sid
        /\ ci_gfip_relatorios[k].hash_conteudo = h}

\* src/main.py lines 280-287: the reports of the person; the last inserted
\* one is the first by criado_em descending
RelatoriosDoSegurado(sid) ==
    {k \in 1..Len(ci_gfip_relatorios) :
        ci_gfip_relatorios[k].segurado_id = sid}

\* src/main.py lines 293-299: the stored lines of a report
LinhasDoRelatorio(rid) ==
    SelectSeq(ci_gfip_linhas, LAMBDA x : x.relatorio_id = rid)

\* src/main.py lines 368-394: a line as inserted for a report
LinhaInserida(rid, l) == [relatorio_id |-> rid] @@ l

\* src/main.py lines 334-397: what is left to insert after a step
FaseSeguinte(c, r, ls) ==
    IF c # <<>> THEN "complementos"
    ELSE IF r # <<>> THEN "retificacoes"
    ELSE IF ls # <<>> THEN "linhas"
    ELSE "fim"

DepoisDeInserir(r, c, rt) ==
    IF FaseSeguinte(c, rt, r.linhas) = "fim"
    THEN [Responde(r, "processado") EXCEPT !.c_pend = c, !.r_pend = rt]
    ELSE [r EXCEPT !.pc = FaseSeguinte(c, rt, r.linhas), !.c_pend = c,
                   !.r_pend = rt]

InitServ ==
    /\ req \in [Chamadas -> {ReqNova(t) : t \in TextosServ}]
    /\ TabelasVazias
    /\ ParseParado /\ DiffParado /\ HashParado /\ RepParado /\ DocParado

\* lines 236-250: layout, cab and linhas of the call, or the 400 of a parse
\* error
AposParse(r, res) ==
    IF TemErro(res) THEN Responde(r, "erro_400")
    ELSE [r EXCEPT !.pc = "segurado", !.layout = Some(res.layout),
                   !.cab = Some(res.cabecalho), !.linhas = res.linhas]

\* lines 221-250: an empty file is answered 400; the text is parsed, and a
\* parse error is answered 400
Receber(p) ==
    /\ req[p].pc = "nova"
    /\ req' = [req EXCEPT ![p] = AposParse(@, resultado_de[@.texto])]
    /\ UNCHANGED varsTabelas
    /\ UNCHANGED <<varsParse, varsDiff, varsHash, varsRep, varsDoc>>

\* lines 164-179, 253-257: no name, no person (answered 400); with a NIT the
\* person is looked up by it
AposBusca(r, nome, achados) ==
    IF nome = <<>> THEN Responde(r, "erro_400")
    ELSE IF achados # <<>>
    THEN [r EXCEPT !.segurado_id = Some(achados[1].segurado_id),
                   !.pc = "verificar"]
    ELSE [r EXCEPT !.pc = "criar_segurado"]

\* lines 171-179: the select runs only for a NIT that is not empty
BuscaPorNit(nit) == IF nit = <<>> THEN <<>> ELSE SeguradosDoNit(nit)

BuscarSeguradoPorNit(p) ==
    /\ req[p].pc = "segurado"
    /\ req' = [req EXCEPT ![p] =
                 AposBusca(@, NomeDoCabecalho(Val(@.cab)),
                           BuscaPorNit(NitDoCabecalho(Val(@.cab))))]
    /\ UNCHANGED varsTabelas
    /\ UNCHANGED <<varsParse, varsDiff, varsHash, varsRep, varsDoc>>

\* lines 182-195: the row inserted for a header
SeguradoNovo(cab) ==
    [nome |-> NomeDoCabecalho(cab),
     data_nascimento |-> cab.data_nascimento,
     nome_mae |-> cab.nome_mae,
     nit_principal |-> NitDoCabecalho(cab)]

\* lines 182-195
CriarSegurado(p) ==
    /\ req[p].pc = "criar_segurado"
    /\ ci_gfip_segurados' =
          Append(ci_gfip_segurados, SeguradoNovo(Val(req[p].cab)))
    /\ req' = [req EXCEPT ![p] =
                 [@ EXCEPT
                    !.segurado_id = Some(Len(ci_gfip_segurados) + 1),
                    !.pc = IF NitDoCabecalho(Val(req[p].cab)) # <<>>
                           THEN "registrar_nit" ELSE "verificar"]]
    /\ UNCHANGED <<ci_gfip_segurado_nits, ci_gfip_relatorios, ci_gfip_linhas,
                   ci_gfip_complementacoes, ci_gfip_retificacoes>>
    /\ UNCHANGED <<varsParse, varsDiff, varsHash, varsRep, varsDoc>>

\* lines 198-203
RegistrarNit(p) ==
    /\ req[p].pc = "registrar_nit"
    /\ ci_gfip_segurado_nits' =
          Append(ci_gfip_segurado_nits,
                 [segurado_id |-> Val(req[p].segurado_id),
                  nit |-> NitDoCabecalho(Val(req[p].cab))])
    /\ req' = [req EXCEPT ![p].pc = "verificar"]
    /\ UNCHANGED <<ci_gfip_segurados, ci_gfip_relatorios, ci_gfip_linhas,
                   ci_gfip_complementacoes, ci_gfip_retificacoes>>
    /\ UNCHANGED <<varsParse, varsDiff, varsHash, varsRep, varsDoc>>

\* a handler that answers a failure of the fingerprint as a rejection
AposHashRejeita(r, h) ==
    IF ~h.ok THEN Responde(r, "erro_400")
    ELSE IF RelatoriosIguais(Val(r.segurado_id), h.val) # {}
    THEN [Responde(r, "duplicado") EXCEPT !.hash_conteudo = Some(h.val)]
    ELSE [r EXCEPT !.hash_conteudo = Some(h.val), !.pc = "anterior"]

\* lines 260-277: an exception in the fingerprint is answered 500, an
\* identical report of the person "duplicado"
AposHash(r, h) ==
    IF ~h.ok THEN Responde(r, "erro_500")
    ELSE IF RelatoriosIguais(Val(r.segurado_id), h.val) # {}
    THEN [Responde(r, "duplicado") EXCEPT !.hash_conteudo = Some(h.val)]
    ELSE [r EXCEPT !.hash_conteudo = Some(h.val), !.pc = "anterior"]

\* lines 260-277: the fingerprint, then the lookup of an identical report
VerificarDuplicado(p) ==
    /\ req[p].pc = "verificar"
    /\ req' = [req EXCEPT ![p] =
                 AposHash(@, gerar_hash_conteudo(Val(@.cab), @.linhas))]
    /\ UNCHANGED varsTabelas
    /\ UNCHANGED <<varsParse, varsDiff, varsHash, varsRep, varsDoc>>

\* a lookup that takes the oldest report of the person as the baseline
AposAnteriorMaisAntigo(r, achados) ==
    IF achados = {} THEN [r EXCEPT !.pc = "salvar"]
    ELSE [r EXCEPT !.relatorio_ant_id = Some(Menor(achados)),
                   !.pc = "linhas_antigas"]

\* lines 289-292: the id of the first row of rel_ant, if any
AposAnterior(r, achados) ==
    IF achados = {} THEN [r EXCEPT !.pc = "salvar"]
    ELSE [r EXCEPT !.relatorio_ant_id = Some(Maior(achados)),
                   !.pc = "linhas_antigas"]

\* a handler that diffs against the oldest report of the person
BuscarRelatorioMaisAntigo(p) ==
    /\ req[p].pc = "anterior"
    /\ req' = [req EXCEPT ![p] =
                 AposAnteriorMaisAntigo(
                     @, RelatoriosDoSegurado(Val(@.segurado_id)))]
    /\ UNCHANGED varsTabelas
    /\ UNCHANGED <<varsParse, varsDiff, varsHash, varsRep, varsDoc>>

\* lines 280-292: the latest report of the person
BuscarRelatorioAnterior(p) ==
    /\ req[p].pc = "anterior"
    /\ req' = [req EXCEPT ![p] =
                 AposAnterior(@, RelatoriosDoSegurado(Val(@.segurado_id)))]
    /\ UNCHANGED varsTabelas
    /\ UNCHANGED <<varsParse, varsDiff, varsHash, varsRep, varsDoc>>

\* line 307, with the "if linhas_antigas" of line 306
DiffDoRelatorio(antigas, novas) ==
    IF antigas = <<>>
    THEN [complementos |-> <<>>, retificacoes |-> <<>>, iguais |-> <<>>]
    ELSE comparar_competencias(antigas, novas)

\* lines 302-309: the three lists of the diff
AposDiff(r, d) ==
    [r EXCEPT !.complementos = d.complementos,
              !.retificacoes = d.retificacoes,
              !.iguais = d.iguais,
              !.pc = "salvar"]

\* lines 293-309: its lines, and the diff of the new lines against them
BuscarLinhasAntigas(p) ==
    /\ req[p].pc = "linhas_antigas"
    /\ req' = [req EXCEPT ![p] =
                 AposDiff(@, DiffDoRelatorio(
                                 LinhasDoRelatorio(Val(@.relatorio_ant_id)),
                                 @.linhas))]
    /\ UNCHANGED varsTabelas
    /\ UNCHANGED <<varsParse, varsDiff, varsHash, varsRep, varsDoc>>

\* lines 312-331
SalvarRelatorio(p) ==
    /\ req[p].pc = "salvar"
    /\ ci_gfip_relatorios' =
          Append(ci_gfip_relatorios,
                 [segurado_id |-> Val(req[p].segurado_id),
                  modelo_relatorio |-> Val(req[p].layout),
                  hash_conteudo |-> Val(req[p].hash_conteudo)])
    /\ req' = [req EXCEPT ![p] =
                 DepoisDeInserir(
                     [@ EXCEPT !.relatorio_id =
                                   Some(Len(ci_gfip_relatorios) + 1)],
                     req[p].complementos, req[p].retificacoes)]
    /\ UNCHANGED <<ci_gfip_segurados, ci_gfip_segurado_nits, ci_gfip_linhas,
                   ci_gfip_complementacoes, ci_gfip_retificacoes>>
    /\ UNCHANGED <<varsParse, varsDiff, varsHash, varsRep, varsDoc>>

\* lines 336-345: the row inserted for a complement
Complementacao(sid, rid, c) ==
    [segurado_id |-> sid,
     relatorio_id |-> rid,
     competencia_ano |-> c.competencia_ano,
     competencia_mes |-> c.competencia_mes,
     competencia_date |-> c.competencia_date,
     competencia_literal |-> c.competencia_literal,
     valor |-> c.remuneracao,
     valor_literal |-> c.remuneracao_literal]

\* lines 334-346: one pass of the loop over complementos
RegistrarComplementacao(p) ==
    /\ req[p].pc = "complementos"
    /\ ci_gfip_complementacoes' =
          Append(ci_gfip_complementacoes,
                 Complementacao(Val(req[p].segurado_id),
                                Val(req[p].relatorio_id), req[p].c_pend[1]))
    /\ req' = [req EXCEPT ![p] =
                 DepoisDeInserir(@, Tail(req[p].c_pend), req[p].r_pend)]
    /\ UNCHANGED <<ci_gfip_segurados, ci_gfip_segurado_nits,
                   ci_gfip_relatorios, ci_gfip_linhas, ci_gfip_retificacoes>>
    /\ UNCHANGED <<varsParse, varsDiff, varsHash, varsRep, varsDoc>>

\* lines 349-363: one pass of the loop over retificacoes
RegistrarRetificacao(p) ==
    /\ req[p].pc = "retificacoes"
    /\ ci_gfip_retificacoes' =
          Append(ci_gfip_retificacoes,
                 [segurado_id |-> Val(req[p].segurado_id),
                  relatorio_id |-> Val(req[p].relatorio_id)]
                 @@ req[p].r_pend[1])
    /\ req' = [req EXCEPT ![p] =
                 DepoisDeInserir(@, <<>>, Tail(req[p].r_pend))]
    /\ UNCHANGED <<ci_gfip_segurados, ci_gfip_segurado_nits,
                   ci_gfip_relatorios, ci_gfip_linhas,
                   ci_gfip_complementacoes>>
    /\ UNCHANGED <<varsParse, varsDiff, varsHash, varsRep, varsDoc>>

\* lines 366-411: the lines of the report in one insert, and the response
InserirLinhas(p) ==
    /\ req[p].pc = "linhas"
    /\ ci_gfip_linhas' =
          ci_gfip_linhas \o
          [k \in 1..Len(req[p].linhas) |->
              LinhaInserida(Val(req[p].relatorio_id), req[p].linhas[k])]
    /\ req' = [req EXCEPT ![p] = Responde(@, "processado")]
    /\ UNCHANGED <<ci_gfip_segurados, ci_gfip_segurado_nits,
                   ci_gfip_relatorios, ci_gfip_complementacoes,
                   ci_gfip_retificacoes>>
    /\ UNCHANGED <<varsParse, varsDiff, varsHash, varsRep, varsDoc>>

\* the steps of a call after the text was received
Passo(p) ==
    \/ BuscarSeguradoPorNit(p)
    \/ CriarSegurado(p)
    \/ RegistrarNit(p)
    \/ VerificarDuplicado(p)
    \/ BuscarRelatorioAnterior(p)
    \/ BuscarLinhasAntigas(p)
    \/ SalvarRelatorio(p)
    \/ RegistrarComplementacao(p)
    \/ RegistrarRetificacao(p)
    \/ InserirLinhas(p)

\* calls served at the same time
NextServ == \E p \in Chamadas : Receber(p) \/ Passo(p)

SpecServ == InitServ /\ [][NextServ]_vars

\* no other call is being served
Sozinha(p) == \A q \in Chamadas \ {p} : req[q].pc \in {"nova", "fim"}

\* calls served one after the other: a sequential history
NextSeq == \E p \in Chamadas : (Sozinha(p) /\ Receber(p)) \/ Passo(p)

SpecSeq == InitServ /\ [][NextSeq]_vars

(***************************************************************************)
(* Properties                                                              *)
(***************************************************************************)
\* the diff key of a record, and the amount the comparison reads from it
\* (an unset remuneration counts as zero)
ChaveDiff(l) == <<l.competencia_ano, l.competencia_mes, l.documento_tomador>>
Montante(l) == IF l.remuneracao = None THEN <<0, 0>> ELSE Val(l.remuneracao)

\* the positions of the prior records that carry the key of l; when several
\* do, the dict keeps the last one
Anteriores(l) ==
    {i \in 1..Len(linhas_antigas) : ChaveDiff(linhas_antigas[i]) = ChaveDiff(l)}
Anterior(l) == linhas_antigas[Maior(Anteriores(l))]

EhComplemento(l) == Anteriores(l) = {}
EhRetificacao(l) == Anteriores(l) # {} /\ Montante(Anterior(l)) # Montante(l)
EhIgual(l) == Anteriores(l) # {} /\ Montante(Anterior(l)) = Montante(l)

SemCompetencia(l) == l.competencia_ano = None \/ l.competencia_mes = None

\* the entries of s at the positions f marks with c, in the order of s
RECURSIVE Escolhidas(_, _, _)
Escolhidas(s, f, c) ==
    IF s = <<>> THEN <<>>
    ELSE LET r == Escolhidas(SubSeq(s, 1, Len(s) - 1), f, c)
         IN IF f[Len(s)] = c THEN Append(r, s[Len(s)]) ELSE r

\* C1: for every header and record list, gerar_hash_conteudo gives the same
\* digest for the list and for every reordering of it, also when two records
\* share the key (ano, mes, documento_tomador) and differ in the remuneration.
\* (The two calls that raise are left to C4.)
C1_DigestIndependeDaOrdem ==
    (hash_pc = "done" /\ Val(hash_a).ok /\ Val(hash_b).ok) => hash_a = hash_b

\* C2: comparar_competencias files each new record by its key against the
\* prior records: no prior record with the key, complementos; a prior record
\* with the key and a numerically different remuneration, retificacoes, with
\* valor_antigo the prior amount, valor_novo the new amount and the two
\* literals; a prior record with the key and the same amount, iguais.
C2_Classificacao ==
    diff_pc = "done" =>
        LET rs == SelectSeq(linhas_novas, EhRetificacao)
        IN /\ complementos = SelectSeq(linhas_novas, EhComplemento)
           /\ iguais = SelectSeq(linhas_novas, EhIgual)
           /\ Len(retificacoes) = Len(rs)
           /\ \A k \in 1..Len(rs) :
                  /\ retificacoes[k].valor_antigo = Montante(Anterior(rs[k]))
                  /\ retificacoes[k].valor_novo = Montante(rs[k])
                  /\ retificacoes[k].valor_antigo # retificacoes[k].valor_novo
                  /\ retificacoes[k].valor_antigo_literal
                         = Anterior(rs[k]).remuneracao_literal
                  /\ retificacoes[k].valor_novo_literal
                         = rs[k].remuneracao_literal
                  /\ retificacoes[k].competencia_ano = rs[k].competencia_ano
                  /\ retificacoes[k].competencia_mes = rs[k].competencia_mes

\* a call that filed a complement and a rectification
C2_Witness ==
    /\ diff_pc = "done"
    /\ Len(complementos) = 1
    /\ Len(retificacoes) = 1
    /\ Len(linhas_antigas) = 2

\* C3: a record whose competency did not parse (ano or mes unset) takes no
\* part in the diff: it is in none of complementos, retificacoes, iguais.
C3_SemCompetenciaForaDoDiff ==
    diff_pc = "done" =>
        /\ \A k \in 1..Len(complementos) : ~SemCompetencia(complementos[k])
        /\ \A k \in 1..Len(retificacoes) : ~SemCompetencia(retificacoes[k])
        /\ \A k \in 1..Len(iguais) : ~SemCompetencia(iguais[k])

\* C4: gerar_hash_conteudo returns a value, never raises, on every header and
\* record list parse_ci_gfip returns.
C4_HashNaoLevanta ==
    hash_conteudo # None => Val(hash_conteudo).ok

\* C5: the three outputs split the new records: every new record is in
\* exactly one of complementos, retificacoes, iguais, in the order of the new
\* list, so the three lengths sum to the number of new records (chave_linha
\* gives every record a key); and no record that is only in the prior list
\* is in any of them.
C5_Particao ==
    diff_pc = "done" =>
        /\ Len(complementos) + Len(retificacoes) + Len(iguais)
               = Len(linhas_novas)
        /\ \E f \in [1..Len(linhas_novas) ->
                        {"complemento", "retificacao", "igual"}] :
               LET rs == Escolhidas(linhas_novas, f, "retificacao")
               IN /\ complementos = Escolhidas(linhas_novas, f, "complemento")
                  /\ iguais = Escolhidas(linhas_novas, f, "igual")
                  /\ Len(retificacoes) = Len(rs)
                  /\ \A k \in 1..Len(rs) :
                         /\ retificacoes[k].competencia_literal
                                = rs[k].competencia_literal
                         /\ retificacoes[k].competencia_date
                                = rs[k].competencia_date
                         /\ retificacoes[k].valor_novo_literal
                                = rs[k].remuneracao_literal
        /\ \A i \in 1..Len(linhas_antigas) :
               (\A j \in 1..Len(linhas_novas) :
                    linhas_novas[j] # linhas_antigas[i])
               => /\ \A k \in 1..Len(complementos) :
                         complementos[k] # linhas_antigas[i]
                  /\ \A k \in 1..Len(iguais) : iguais[k] # linhas_antigas[i]

\* a call whose new records went to two different outputs, with a prior
\* record of the same key that is not among the new ones
C5_Witness ==
    /\ diff_pc = "done"
    /\ Len(iguais) = 1
    /\ Len(retificacoes) = 1
    /\ \E i \in 1..Len(linhas_antigas) :
           /\ ChaveDiff(linhas_antigas[i]) = ChaveDiff(iguais[1])
           /\ linhas_antigas[i] # iguais[1]
           /\ \A j \in 1..Len(linhas_novas) :
                  linhas_novas[j] # linhas_antigas[i]

\* the steps C6 allows.  "rows" is the head of the row loop: the header is
\* extracted and every row met so far is assembled or dropped.
C6_Passo ==
    \/ /\ pc = "start" /\ pc' = "layout_detected"
       /\ layout' \in {Some("modelo_1"), Some("modelo_2")}
    \/ /\ pc = "start" /\ pc' = "failed"
       /\ layout' = Some("layout_nao_identificado")
    \/ pc = "layout_detected" /\ pc' = "rows"
    \/ pc = "rows" /\ pc' \in {"rows", "row_reconstructed", "done"}
    \/ pc = "row_reconstructed" /\ pc' = "rows"
    \/ pc = "done" /\ pc' = "done"

\* C6: a parse call goes start, layout detected, rows reconstructed, records
\* assembled, done; an unknown layout takes it from start straight to the
\* terminal failed state, so that no header extraction, row reconstruction
\* or record assembly runs after it; every call with a known layout reaches
\* done.
C6_MaquinaDeEstados ==
    /\ [][C6_Passo]_vars
    /\ [](layout = Some("layout_nao_identificado")
            => /\ pc = "failed"
               /\ cabecalho = None
               /\ linhas = <<>>
               /\ idx = 0
               /\ partes = None)
    /\ (pc = "layout_detected" ~> pc = "done")

\* a call of a known layout that is done, with two rows assembled
C6_Witness ==
    /\ pc = "done"
    /\ layout = Some("modelo_2")
    /\ Len(linhas) = 2
    /\ idx = Len(texto) + 1

\* no line of the text holds a keyword a layout is recognized by
SemPalavraChave(txt) ==
    /\ ~TextoContem(txt, KW_MODELO_2)
    /\ ~TextoContem(txt, KW_COMPET)
    /\ ~TextoContem(txt, KW_FPAS)
    /\ ~TextoContem(txt, KW_CATEG)

C8_ContagemExata ==
    [][(/\ pc = "row_reconstructed"
        /\ layout = Some("modelo_2")
        /\ Len(linhas') > Len(linhas))
       => Len(Val(partes)) = (IF Upper(Val(partes)[1]) = TAG_GFIP
                              THEN 13 ELSE 12)]_vars

\* C9: every record of an ESOCIAL line has categoria_codigo, codigo_gfip and
\* valor_retido unset.
C9_EsocialSemCategoriaNemRetido ==
    \A k \in 1..Len(linhas) :
        linhas[k].fonte = Some(TAG_ESOCIAL)
        => /\ linhas[k].categoria_codigo = None
           /\ linhas[k].codigo_gfip = None
           /\ linhas[k].valor_retido = None

\* the competency fields of a record agree
CompetenciaCoerente(r) ==
    /\ (r.competencia_ano # None /\ r.competencia_mes # None)
           <=> r.competencia_date # None
    /\ r.competencia_date = None
           => r.competencia_ano = None /\ r.competencia_mes = None

\* the token of the row under assembly that holds the competency
TokenCompetencia ==
    IF layout = Some("modelo_1") THEN Val(partes)[1] ELSE Val(partes)[4]

\* C10: in every record of both layouts competencia_ano and competencia_mes
\* are both set exactly when competencia_date is; when the competency did
\* not parse both are unset and competencia_literal is the original token;
\* and the records returned are the records assembled.
C10_CompetenciaCoerente ==
    /\ [](\A k \in 1..Len(linhas) : CompetenciaCoerente(linhas[k]))
    /\ [](pc = "done" => Val(resultado).linhas = linhas)
    /\ [][(pc = "row_reconstructed" /\ Len(linhas') > Len(linhas))
          => LET r == linhas'[Len(linhas')]
             IN r.competencia_date = None
                => r.competencia_literal = Some(TokenCompetencia)]_vars

\* a result that holds a record whose competency parsed and one whose
\* competency did not
C10_Witness ==
    /\ pc = "done"
    /\ \E k \in 1..Len(linhas) :
           /\ linhas[k].competencia_date = None
           /\ linhas[k].competencia_literal # Some(<<>>)
    /\ \E k \in 1..Len(linhas) : linhas[k].competencia_ano = Some(2023)

(***************************************************************************)
(* Field failures in the layout-B row loop                                 *)
(***************************************************************************)
\* the step of the row loop that maps the tokens of a layout-B row to the
\* columns of a variant
MapeiaModelo2 ==
    /\ pc = "row_reconstructed"
    /\ Val(layout) = "modelo_2"
    /\ ~IsNone(ColunasModelo2(Val(partes)))

\* the record the step appends, the records before it left as they were
Emitido(r) ==
    /\ Len(linhas') = Len(linhas) + 1
    /\ SubSeq(linhas', 1, Len(linhas)) = linhas
    /\ linhas'[Len(linhas')] = r

\* a field of the four that carry a literal: when its normalizer gives no
\* value the field is unset and the literal is the token
CampoAbsorvido(norm, valor, literal, token) ==
    IsNone(norm) => (valor = None /\ literal = Some(token))

QuatroCamposAbsorvidos(r, c) ==
    /\ CampoAbsorvido(normalizar_competencia(Some(c.competencia)).data,
                      r.competencia_date, r.competencia_literal,
                      c.competencia)
    /\ CampoAbsorvido(normalizar_data(Some(c.data_envio_lit)).data,
                      r.data_envio_date, r.data_envio_literal,
                      c.data_envio_lit)
    /\ CampoAbsorvido(normalizar_moeda(Some(c.remun_txt)).valor,
                      r.remuneracao, r.remuneracao_literal, c.remun_txt)
    /\ CampoAbsorvido(normalizar_moeda(Some(c.valor_retido_txt)).valor,
                      r.valor_retido, r.valor_retido_literal,
                      c.valor_retido_txt)

\* the taxpayer document of the row cannot be classified
DocumentoFalha(c) ==
    normalizar_documento_tomador(Some(c.doc_tomador_raw)).tipo
        = "DESCONHECIDO"

C11_PassoOriginal ==
    MapeiaModelo2 =>
        LET c == Val(ColunasModelo2(Val(partes)))
        IN \E r \in {linhas'[k] : k \in 1..Len(linhas')} :
              /\ Emitido(r)
              /\ QuatroCamposAbsorvidos(r, c)
              /\ DocumentoFalha(c) => r.documento_tomador = None

C11_PassoCorrigido ==
    MapeiaModelo2 =>
        LET c == Val(ColunasModelo2(Val(partes)))
        IN \E r \in {linhas'[k] : k \in 1..Len(linhas')} :
              /\ Emitido(r)
              /\ QuatroCamposAbsorvidos(r, c)
              /\ DocumentoFalha(c) =>
                    /\ r.documento_tomador
                          = Some(so_numeros(Some(c.doc_tomador_raw)))
                    /\ r.documento_tomador_tipo = Some("DESCONHECIDO")

\* C11 as stated: a layout-B row that maps to a column variant is always
\* emitted as a record, the records before it untouched, and each of
\* competency, submission date, remuneration, withheld amount and taxpayer
\* document that fails to normalize is unset in the record
C11_FalhaDeCampoAbsorvida == [][C11_PassoOriginal]_vars

\* C11 amended: the same for the four fields that carry a literal (unset, the
\* literal being the token unchanged); a taxpayer document that cannot be
\* classified is kept as its digit string with the type DESCONHECIDO
C11_FalhaDeCampoAbsorvidaSalvoDocumento == [][C11_PassoCorrigido]_vars

\* a parse that emitted a row whose four literal fields all failed and a row
\* whose document could not be classified
C11_Witness ==
    /\ pc = "done"
    /\ \E k \in 1..Len(linhas) :
          /\ linhas[k].competencia_date = None
          /\ linhas[k].competencia_literal = Some(T_COMP_RUIM)
          /\ linhas[k].data_envio_date = None
          /\ linhas[k].remuneracao = None
          /\ linhas[k].remuneracao_literal = Some(T_REM_RUIM)
          /\ linhas[k].valor_retido = None
    /\ \E k \in 1..Len(linhas) :
          /\ linhas[k].documento_tomador_tipo = Some("DESCONHECIDO")
          /\ Len(Val(linhas[k].documento_tomador)) > 14

(***************************************************************************)
(* Classification of the taxpayer document                                 *)
(***************************************************************************)
\* the digits left of a literal once every other character is stripped
DigitosDoLiteral(v) == IF IsNone(v) THEN <<>> ELSE SelectSeq(Val(v), EhDigito)

\* the class the digit count gives
ClassePorContagem(d) ==
    IF Len(d) = 14 THEN [documento |-> d, tipo |-> "CNPJ_COMPLETO"]
    ELSE IF Len(d) = 12 THEN [documento |-> d, tipo |-> "CEI"]
    ELSE IF Len(d) = 11 THEN [documento |-> d, tipo |-> "CPF"]
    ELSE IF Len(d) <= 8
    THEN [documento |-> [i \in 1..8 |-> IF i <= 8 - Len(d) THEN "0"
                                        ELSE d[i - (8 - Len(d))]],
          tipo |-> "CNPJ_RAIZ"]
    ELSE IF Len(d) \in {9, 10, 13}
    THEN [documento |-> SubSeq(d, 1, 8), tipo |-> "CNPJ_RAIZ"]
    ELSE [documento |-> d, tipo |-> "DESCONHECIDO"]

LiteralVazio(v) == IsNone(v) \/ Val(v) = <<>>

\* C12 as stated: for every input literal the result is the class of the
\* count of its digits: 14 CNPJ_COMPLETO, 12 CEI, 11 CPF, 8 or fewer (zero
\* included) CNPJ_RAIZ padded with zeros to 8, 9, 10 or 13 CNPJ_RAIZ of the
\* first 8 digits, anything else DESCONHECIDO with the digits retained
C12_ClassePorContagem ==
    doc_pc = "done" =>
        Val(doc_saida) = ClassePorContagem(DigitosDoLiteral(doc_valor))

\* C12 amended: the same for every literal that is not empty; the empty
\* literal and None give DESCONHECIDO with the empty string
C12_ClassePorContagemSalvoVazio ==
    doc_pc = "done" =>
        Val(doc_saida) =
            IF LiteralVazio(doc_valor)
            THEN [documento |-> <<>>, tipo |-> "DESCONHECIDO"]
            ELSE ClassePorContagem(DigitosDoLiteral(doc_valor))

\* a punctuated literal of 10 digits was classified by its first 8
C12_Witness ==
    /\ doc_pc = "done"
    /\ Len(DigitosDoLiteral(doc_valor)) = 10
    /\ Len(Val(doc_valor)) > 10
    /\ Val(doc_saida).tipo = "CNPJ_RAIZ"
    /\ Val(doc_saida).documento = DigitosDe(8)

(***************************************************************************)
(* Which lines of a layout-B text become records                           *)
(***************************************************************************)
\* a table-header line
EhCabecalhoDeTabela(raw) ==
    \A kw \in {KW_FONTE, KW_NIT, KW_COMPET, KW_VALOR_RETIDO} :
        Contains(Upper(Strip(raw)), kw)

Tokens(raw) == Split(Strip(raw))

\* the first token of the line is one of the two source tags
ComecaComTag(raw) ==
    /\ Tokens(raw) # <<>>
    /\ Upper(Tokens(raw)[1]) \in {TAG_GFIP, TAG_ESOCIAL}

EhRodape(raw) == StartsWith(Strip(raw), PREFIXO_PAGINA)

\* line k of the text stands after a table header, is no footer, is no table
\* header and begins with a source tag
LinhaDeTabela(k) ==
    /\ \E j \in 1..(k - 1) : EhCabecalhoDeTabela(texto[j])
    /\ ~EhCabecalhoDeTabela(texto[k])
    /\ ~EhRodape(texto[k])
    /\ ComecaComTag(texto[k])

C13_Passo ==
    (layout = Some("modelo_2") /\ linhas' # linhas) =>
        /\ pc = "row_reconstructed"
        /\ LinhaDeTabela(idx)
        /\ Len(linhas') = Len(linhas) + 1

C13_Contagem ==
    (layout = Some("modelo_2") /\ pc = "done") =>
        Len(linhas) =
            Cardinality({k \in 1..Len(texto) :
                            /\ LinhaDeTabela(k)
                            /\ ~IsNone(ColunasModelo2(Tokens(texto[k])))})

\* C13: in the layout-B row loop a record comes only from a line that begins
\* with GFIP or ESOCIAL and stands after a table header, never from a line
\* before the first table header nor from a footer line; and once the header
\* was seen every later tagged row that maps to a variant gives its record,
\* footers in between or not
C13_SoLinhasDeTabela == [][C13_Passo]_vars /\ []C13_Contagem

\* a row that stands after a footer line gave the record of the parse
C13_Witness ==
    /\ pc = "done"
    /\ layout = Some("modelo_2")
    /\ Len(texto) >= 3
    /\ EhRodape(texto[Len(texto) - 1])
    /\ LinhaDeTabela(Len(texto))
    /\ Len(linhas) = 1

(***************************************************************************)
(* Row reconstruction: wrapped rows and split currency tokens              *)
(***************************************************************************)
\* a token of the form MM/YYYY
FormaMesAno(tok) ==
    /\ Len(tok) = 7
    /\ tok[3] = "/"
    /\ \A i \in {1, 2, 4, 5, 6, 7} : EhDigito(tok[i])

TemCompetencia(ps) == \E i \in 1..Len(ps) : FormaMesAno(ps[i])

\* a line that is a single bare word with no competency token
PalavraSolta(raw) ==
    /\ Len(Tokens(raw)) = 1
    /\ ~FormaMesAno(Tokens(raw)[1])
    /\ ~ComecaComTag(raw)

\* line k is a table row that maps to no variant by itself, holds its
\* competency token and is followed by a single bare word that completes it
LinhaQuebrada(k) ==
    /\ k < Len(texto)
    /\ LinhaDeTabela(k)
    /\ TemCompetencia(Tokens(texto[k]))
    /\ IsNone(ColunasModelo2(Tokens(texto[k])))
    /\ PalavraSolta(texto[k + 1])
    /\ ~IsNone(ColunasModelo2(Tokens(texto[k]) \o Tokens(texto[k + 1])))

\* C14: a table row whose trailing token stands on the next physical line
\* gives exactly one record, assembled from the tokens of the two lines
C14_LinhaQuebradaCurada ==
    (pc = "done" /\ layout = Some("modelo_2")) =>
        \A k \in 1..Len(texto) :
            LinhaQuebrada(k) =>
                Cardinality({i \in 1..Len(linhas) :
                    Some(linhas[i]) =
                        RegistroModelo2(Tokens(texto[k])
                                        \o Tokens(texto[k + 1]))}) = 1

SIMBOLO_MOEDA == <<"R", "$">>

EhNumeral(tok) == tok # <<>> /\ EhDigito(tok[1])

\* the tokens with every currency symbol joined to the numeral that follows
RECURSIVE FundirMoeda(_)
FundirMoeda(ps) ==
    IF Len(ps) < 2 THEN ps
    ELSE IF ps[1] = SIMBOLO_MOEDA /\ EhNumeral(ps[2])
    THEN <<ps[1] \o ps[2]>> \o FundirMoeda(SubSeq(ps, 3, Len(ps)))
    ELSE <<ps[1]>> \o FundirMoeda(Tail(ps))

C15_Passo ==
    (/\ pc = "row_reconstructed"
     /\ layout = Some("modelo_2")
     /\ FundirMoeda(Val(partes)) # Val(partes)) =>
        linhas' = AnexarRegistro(linhas,
                                 RegistroModelo2(FundirMoeda(Val(partes))))

\* C15: a table row with a currency symbol token followed by its numeral as
\* a separate token gives the record of the row with the two written as one
\* token
C15_MoedaFundida == [][C15_Passo]_vars

(***************************************************************************)
(* Header fields, one by one                                               *)
(***************************************************************************)
\* the dates that follow a birth-date label in the text
NascimentosRotulados(s) ==
    {p \in 1..Len(s) : ~IsNone(TermDataNascimento(s, Upper(s), p))}

\* the mother's-name labels of the text that are followed by a value
MaesRotuladas(s) ==
    {i \in 1..Len(s) :
        /\ RotuloNomeDaMae(Upper(s), i) > 0
        /\ LET j == RotuloNomeDaMae(Upper(s), i)
               run == Run(s, j + 1, SepsRotulo)
           IN /\ run >= 1
              /\ j + run + 1 <= Len(s)
              /\ s[j + run + 1] \notin Brancos}

\* C16: each header field is extracted whatever the other labels do: a text
\* with a valid "Data de Nascimento: DD/MM/YYYY" yields the birth date and a
\* text with "Nome da Mãe: <value>" yields the mother's name
C16_CamposIndependentes ==
    (layout = Some("modelo_2") /\ ~IsNone(cabecalho)) =>
        LET s == TextoCompleto(texto)
        IN /\ NascimentosRotulados(s) # {} =>
                 Val(cabecalho).data_nascimento =
                     normalizar_data(
                         TermDataNascimento(s, Upper(s),
                                            Menor(NascimentosRotulados(s)))
                     ).data
           /\ MaesRotuladas(s) # {} => ~IsNone(Val(cabecalho).nome_mae)

(***************************************************************************)
(* Precedence of the layout rules                                          *)
(***************************************************************************)
\* the upper-cased text holds the phrase
NoTexto(frase) == Contains(Upper(TextoCompleto(texto)), frase)

TemFraseModelo2 == NoTexto(KW_MODELO_2)
TemColunasModelo1 ==
    NoTexto(KW_COMPET) /\ NoTexto(KW_FPAS) /\ NoTexto(KW_CATEG)

\* C17: two submissions served at the same time for the same person do not
\* race between reading and writing the stored state: no two stored reports
\* of one person carry the same hash_conteudo, and no two segurado rows are
\* created for the same NIT.
C17_SemCorrida ==
    /\ \A i, j \in 1..Len(ci_gfip_relatorios) :
          (/\ ci_gfip_relatorios[i].segurado_id =
                  ci_gfip_relatorios[j].segurado_id
           /\ ci_gfip_relatorios[i].hash_conteudo =
                  ci_gfip_relatorios[j].hash_conteudo) => i = j
    /\ \A i, j \in 1..Len(ci_gfip_segurados) :
          (/\ ci_gfip_segurados[i].nit_principal # <<>>
           /\ ci_gfip_segurados[i].nit_principal =
                  ci_gfip_segurados[j].nit_principal) => i = j

\* an earlier call stored a report for the document call p submits
JaArmazenado(p) ==
    \E q \in Chamadas \ {p} :
        /\ req[q].pc = "fim"
        /\ req[q].resposta = Some("processado")
        /\ req[q].texto = req[p].texto

C18_Passo ==
    \A p \in Chamadas :
        (req'[p] # req[p] /\ JaArmazenado(p)) =>
            /\ UNCHANGED varsTabelas
            /\ req'[p].pc \notin {"anterior", "linhas_antigas", "salvar"}
            /\ req'[p].pc = "fim" =>
                  /\ req'[p].resposta = Some("duplicado")
                  /\ req'[p].relatorio_id = None

\* C18: in a sequential history, a call that submits a document for which an
\* earlier call stored a report answers "duplicado": it never looks up the
\* prior report or its lines for the diff and inserts no segurado, report,
\* complement, rectification or line row.
C18_DuplicadoAntesDoDiff == [][C18_Passo]_vars

\* C19: the layout-B phrase is checked first on the upper-cased text, so a
\* text that holds it is modelo_2 even with the three layout-A keywords; a
\* text without it that holds the three keywords is modelo_1; every other
\* text is not identified
C19_PrimeiraRegraVence ==
    ~IsNone(layout) =>
        Val(layout) = IF TemFraseModelo2 THEN "modelo_2"
                      ELSE IF TemColunasModelo1 THEN "modelo_1"
                      ELSE "layout_nao_identificado"

\* a text with the phrase and the three layout-A keywords went to layout B
C19_Witness ==
    /\ layout = Some("modelo_2")
    /\ TemFraseModelo2
    /\ TemColunasModelo1
    /\ pc = "done"

(***************************************************************************)
(* Two parses of one text                                                  *)
(***************************************************************************)
C20_Retorno ==
    (chamada = 2 /\ pc \in {"done", "failed"}) => resultado = anterior

C20_Passo ==
    (chamada = 1 /\ chamada' = 2) =>
        /\ texto' = texto
        /\ pc' = "start"
        /\ layout' = None /\ cabecalho' = None /\ linhas' = <<>>
        /\ idx' = 0 /\ in_table' = FALSE /\ partes' = None
        /\ resultado' = None

PrimeiraLetraSim(literal) ==
    /\ ~IsNone(literal)
    /\ Val(literal) # <<>>
    /\ Val(literal)[1] \in {"s", "S"}

\* C21: the late-filing flag of every assembled record, of either layout, is
\* a boolean: TRUE exactly when the first letter of the late-filing literal
\* is "s" in either case, FALSE otherwise and when the literal is empty or
\* absent; it is never left unset.
C21_ExtemporaneoBooleano ==
    \A k \in 1..Len(linhas) :
        linhas[k].extemporaneo =
            Some(PrimeiraLetraSim(linhas[k].extemporaneo_literal))

\* the positions of a call before its first insert (lines 216-257, 160-179)
AntesDeEscrever == {"nova", "segurado"}

\* a call writes to the tables only after those positions, and never returns
\* to them
SoEscreveDepois ==
    \A p \in Chamadas :
        req'[p] # req[p] =>
            /\ varsTabelas' # varsTabelas => req[p].pc \notin AntesDeEscrever
            /\ req'[p].pc \in AntesDeEscrever => req[p].pc \in AntesDeEscrever

\* the step by which call p ends with one of the responses
TerminaCom(p, respostas) ==
    /\ req[p].resposta = None
    /\ req'[p].resposta # None
    /\ Val(req'[p].resposta) \in respostas

C22_PassoOriginal ==
    /\ SoEscreveDepois
    /\ \A p \in Chamadas :
          TerminaCom(p, {"erro_400", "erro_500"}) =>
              /\ req[p].pc \in AntesDeEscrever
              /\ UNCHANGED varsTabelas

C22_PassoCorrigido ==
    /\ SoEscreveDepois
    /\ \A p \in Chamadas :
          TerminaCom(p, {"erro_400"}) =>
              /\ req[p].pc \in AntesDeEscrever
              /\ UNCHANGED varsTabelas

RelatoriosAnterioresA(rid) ==
    {k \in 1..(rid - 1) :
        ci_gfip_relatorios[k].segurado_id =
            ci_gfip_relatorios[rid].segurado_id}

\* the stored lines of the report stored last before rid for its person;
\* none when there is no such report
LinhasDaBase(rid) ==
    IF RelatoriosAnterioresA(rid) = {} THEN <<>>
    ELSE SelectSeq(ci_gfip_linhas,
                   LAMBDA x : x.relatorio_id = Maior(RelatoriosAnterioresA(rid)))

\* the competency of a record is among the records ls
CompetenciaEm(l, ls) ==
    \E k \in 1..Len(ls) :
        /\ ls[k].competencia_ano = l.competencia_ano
        /\ ls[k].competencia_mes = l.competencia_mes

\* a record of ls has the competency of l and the amount valor
ValorNaCompetencia(l, ls, valor) ==
    \E k \in 1..Len(ls) :
        /\ ls[k].competencia_ano = l.competencia_ano
        /\ ls[k].competencia_mes = l.competencia_mes
        /\ OuZero(ls[k].remuneracao) = valor

\* the rows of a table recorded for report rid
DoRelatorio(tabela, rid) == SelectSeq(tabela, LAMBDA x : x.relatorio_id = rid)

\* call p was accepted and all its inserts are done
Aceita(p) == req[p].pc = "fim" /\ req[p].resposta = Some("processado")

\* what an accepted call recorded, against the baseline of its report
C23_DiffDaChamada(p) ==
    LET rid == Val(req[p].relatorio_id)
        base == LinhasDaBase(rid)
        comps == DoRelatorio(ci_gfip_complementacoes, rid)
        rets == DoRelatorio(ci_gfip_retificacoes, rid)
    IN /\ Len(DoRelatorio(ci_gfip_linhas, rid)) = Len(req[p].linhas)
       /\ Len(comps) = Len(req[p].complementos)
       /\ Len(rets) = Len(req[p].retificacoes)
       /\ base = <<>> =>
             /\ comps = <<>> /\ rets = <<>>
             /\ req[p].iguais = <<>>
       /\ base # <<>> =>
             /\ req[p].complementos =
                   SelectSeq(req[p].linhas,
                             LAMBDA l : ~CompetenciaEm(l, base))
             /\ \A k \in 1..Len(rets) :
                   /\ rets[k].valor_antigo # rets[k].valor_novo
                   /\ ValorNaCompetencia(rets[k], base, rets[k].valor_antigo)
                   /\ ValorNaCompetencia(rets[k], req[p].linhas,
                                         rets[k].valor_novo)
             /\ Len(comps) + Len(rets) + Len(req[p].iguais) =
                   Len(req[p].linhas)

RegistradoPara(nit) ==
    {ci_gfip_segurado_nits[k].segurado_id :
        k \in {j \in 1..Len(ci_gfip_segurado_nits) :
                  ci_gfip_segurado_nits[j].nit = nit}}

\* the digits of the NIT of the header call p parsed
NitDaChamada(p) == so_numeros(Val(req[p].cab).nit)

\* call p has parsed a header whose NIT is not empty and is registered
NitJaRegistrado(p) ==
    /\ req[p].pc \notin {"nova", "fim"}
    /\ NitDaChamada(p) # <<>>
    /\ RegistradoPara(NitDaChamada(p)) # {}

\* the header call p parsed has a name
TemNome(p) == Strip(OuVazio(Val(req[p].cab).nome)) # <<>>

\* each NIT is registered once, to one segurado
C24_UmSeguradoPorNit ==
    \A i, j \in 1..Len(ci_gfip_segurado_nits) :
        ci_gfip_segurado_nits[i].nit = ci_gfip_segurado_nits[j].nit => i = j

\* a step of a call with a registered NIT inserts no segurado and no NIT,
\* and its lookup resolves to the segurado of the NIT
C24_Resolve(p) ==
    /\ ci_gfip_segurados' = ci_gfip_segurados
    /\ ci_gfip_segurado_nits' = ci_gfip_segurado_nits
    /\ req[p].pc = "segurado" =>
          /\ req'[p].segurado_id # None
          /\ Val(req'[p].segurado_id) \in RegistradoPara(NitDaChamada(p))

C24_PassoOriginal ==
    \A p \in Chamadas :
        (req'[p] # req[p] /\ NitJaRegistrado(p)) => C24_Resolve(p)

C24_PassoCorrigido ==
    \A p \in Chamadas :
        (req'[p] # req[p] /\ NitJaRegistrado(p)) =>
            IF TemNome(p) THEN C24_Resolve(p)
            ELSE /\ UNCHANGED varsTabelas
                 /\ req'[p].resposta = Some("erro_400")
                 /\ req'[p].segurado_id = None

\* C24 as stated: in a sequential history each NIT is registered to at most
\* one segurado, and every call whose header carries a registered NIT
\* resolves to that segurado_id and inserts no segurado, whatever the name in
\* the header.
C24_IdentidadeEstavel == []C24_UmSeguradoPorNit /\ [][C24_PassoOriginal]_vars

\* C24: in a sequential history each NIT is registered to at most one
\* segurado, and every call whose header carries a registered NIT and a name
\* that is not empty resolves to that segurado_id and inserts no segurado,
\* whatever the name; with no name in the header the call is rejected (400)
\* without resolving and without inserting.
C24_IdentidadeEstavelComNome ==
    []C24_UmSeguradoPorNit /\ [][C24_PassoCorrigido]_vars

\* a call under another name resolved to the segurado created for the NIT
C24_Witness ==
    /\ Len(ci_gfip_segurados) = 1
    /\ \E p \in Chamadas :
          /\ req[p].cab # None
          /\ NitDaChamada(p) # <<>>
          /\ TemNome(p)
          /\ Val(req[p].cab).nome # Some(ci_gfip_segurados[1].nome)
          /\ req[p].segurado_id = Some(1)
          /\ req[p].resposta = Some("processado")

====
